---- MODULE Spec2Model ----
(***************************************************************************)
(* Model of the visitor-map code of the portfolio site.                    *)
(*                                                                         *)
(*   - the mode-based VisitorMap module (src/visitor-map.js): privacy      *)
(*     modes, consent, the asynchronous geolocation fetch, the store in    *)
(*     localStorage and the session flag in sessionStorage;                *)
(*   - the basic PrivacyCompliantVisitorMap class (src/unnamed/part_000).  *)
(*                                                                         *)
(* Handlers are pure operators from a state record to a state record, so   *)
(* that a handler that calls another is the composition of the two; an     *)
(* action applies one handler to the current state.                        *)
(***************************************************************************)
EXTENDS Integers, Sequences, FiniteSets, TLC

\* ------------------------------------------------------------------ bounds
\* in-flight geolocation fetches at one time
MaxPending == 2
\* visits recorded during the session
MaxVisits == 2
\* largest reading of the clock (Date.now()), in abstract ticks
MaxTime == 0
\* page loads of the basic variant
MaxLoads == 2
\* the same three bounds for the runs that start from a nearly full fuzzy list
CapPending == 1
CapVisits == 2
CapTime == 0

\* --------------------------------------------------------------- variables
VARIABLES
    currentMode,     \* visitor-map.js:50
    visitorData,     \* visitor-map.js:51
    hasConsent,      \* visitor-map.js:52
    lsMode,          \* localStorage['visitor_privacy_mode']
    lsConsent,       \* localStorage['visitor_consent']
    lsData,          \* localStorage['visitor_map_data']: <<>> or <<blob>>
    sessionTracked,  \* sessionStorage['current_visitor_tracked'] is set
    pending,         \* trackCurrentVisitor calls suspended at the fetch
    now,             \* last reading of Date.now()
    visits,          \* history: visits recorded since the session began
    dom,             \* the elements the module writes
    tab2,            \* the module in a second tab of the browser: its own
                     \* variables, its page and its sessionStorage
    \* the basic variant (class PrivacyCompliantVisitorMap), on a page of its own
    pcStorage,       \* localStorage['visitor_map_data']: <<>> or <<blob>>
    pcMarkers,       \* this.markers
    pcStats,         \* the three counters updateStats writes
    pcLocation,      \* what getApproximateLocation returned: <<>> or <<location>>
    pcNow,           \* last reading of Date.now(), in milliseconds
    pcLoads,         \* history: page loads so far
    pcTimezone,      \* Intl.DateTimeFormat().resolvedOptions().timeZone, as last read
    \* loading a blob of any shape, both variants, on the kinds of JSON values
    ldRaw,           \* the text under 'visitor_map_data', by what it parses to
    ldData,          \* visitorData of the mode-based variant, by kind
    ldStored,        \* what getStoredData of the basic variant returns, by kind
    ldPc,            \* "start", then "loaded"
    ldOutcome,       \* how the last operation on the loaded data ended
    \* the portfolio page (script.js)
    secActive,       \* the content sections that carry the class 'active'
    tbActive,        \* the taskbar items that carry it, by position
    lastSection,     \* history: the argument of the last switchSection call
    scrollTop,       \* how far the window is scrolled
    \* the serverless function (api/geolocation.js)
    srvPc,           \* where the handler of the current request is suspended
    srvReq,          \* the request: its method and the client address
    srvRes,          \* the response sent: <<>> or <<[status, body]>>
    srvLog,          \* what console.error printed during the request
    srvTried,        \* history: the lookup methods tried for the request
    srvEscaped,      \* history: an exception left lookupLocation
    srvCount,        \* history: requests received
    \* the title screen of the portfolio page (startGame of script.js)
    gmSeqs,          \* the calls of startGame: the locals of each call
    gmPage,          \* the elements startGame and its timers write
    \* history of the mode-based variant
    inflight         \* the mode each suspended trackCurrentVisitor call started in

modeVars == <<currentMode, visitorData, hasConsent, lsMode, lsConsent, lsData,
              sessionTracked, pending, now, visits, dom, tab2>>

basicVars == <<pcStorage, pcMarkers, pcStats, pcLocation, pcNow, pcLoads, pcTimezone>>

loadVars == <<ldRaw, ldData, ldStored, ldPc, ldOutcome>>

sectionVars == <<secActive, tbActive, lastSection, scrollTop>>

serverVars == <<srvPc, srvReq, srvRes, srvLog, srvTried, srvEscaped, srvCount>>

gameVars == <<gmSeqs, gmPage>>

flightVars == <<inflight>>

vars == <<modeVars, basicVars, loadVars, sectionVars, serverVars, gameVars, flightVars>>

\* ----------------------------------------------------------- configuration
DEFAULT_MODE == "country"
\* digits kept by the rounding of fuzzy coordinates
FUZZY_PRECISION == 1
\* length the fuzzy list is cut back to
FuzzyLimit == 1000

Modes == {"country", "fuzzy", "ephemeral", "disabled"}
ActiveModes == {"country", "fuzzy", "ephemeral"}
\* what changeMode can be called with: the four modes and any other string
ModeArgs == Modes \cup {"other"}

\* getItem of a key that is not set
Missing == "<null>"

COUNTRY_NAMES ==
    [c \in {"US", "GB", "CA", "AU", "DE", "FR", "ES", "IT", "NL", "BE", "CH",
            "AT", "SE", "NO", "DK", "FI", "PL", "CZ", "IE", "PT", "GR", "JP",
            "CN", "KR", "IN", "BR", "MX", "AR", "CL", "CO", "PE", "ZA", "EG",
            "NG", "KE", "RU", "UA", "TR", "IL", "SA", "AE", "SG", "MY", "TH",
            "ID", "PH", "VN", "NZ"} |->
        CASE c = "US" -> "United States"  [] c = "GB" -> "United Kingdom"
          [] c = "CA" -> "Canada"         [] c = "AU" -> "Australia"
          [] c = "DE" -> "Germany"        [] c = "FR" -> "France"
          [] c = "ES" -> "Spain"          [] c = "IT" -> "Italy"
          [] c = "NL" -> "Netherlands"    [] c = "BE" -> "Belgium"
          [] c = "CH" -> "Switzerland"    [] c = "AT" -> "Austria"
          [] c = "SE" -> "Sweden"         [] c = "NO" -> "Norway"
          [] c = "DK" -> "Denmark"        [] c = "FI" -> "Finland"
          [] c = "PL" -> "Poland"         [] c = "CZ" -> "Czech Republic"
          [] c = "IE" -> "Ireland"        [] c = "PT" -> "Portugal"
          [] c = "GR" -> "Greece"         [] c = "JP" -> "Japan"
          [] c = "CN" -> "China"          [] c = "KR" -> "South Korea"
          [] c = "IN" -> "India"          [] c = "BR" -> "Brazil"
          [] c = "MX" -> "Mexico"         [] c = "AR" -> "Argentina"
          [] c = "CL" -> "Chile"          [] c = "CO" -> "Colombia"
          [] c = "PE" -> "Peru"           [] c = "ZA" -> "South Africa"
          [] c = "EG" -> "Egypt"          [] c = "NG" -> "Nigeria"
          [] c = "KE" -> "Kenya"          [] c = "RU" -> "Russia"
          [] c = "UA" -> "Ukraine"        [] c = "TR" -> "Turkey"
          [] c = "IL" -> "Israel"         [] c = "SA" -> "Saudi Arabia"
          [] c = "AE" -> "United Arab Emirates"
          [] c = "SG" -> "Singapore"      [] c = "MY" -> "Malaysia"
          [] c = "TH" -> "Thailand"       [] c = "ID" -> "Indonesia"
          [] c = "PH" -> "Philippines"    [] c = "VN" -> "Vietnam"
          [] c = "NZ" -> "New Zealand"]

\* ---------------------------------------------------------- JavaScript values
\* A number, NaN, undefined and JSON null, as records of one shape.
Num(v) == [t |-> "num", v |-> v]
NaN == [t |-> "NaN", v |-> 0]
Undefined == [t |-> "undefined", v |-> 0]
JsonNull == [t |-> "null", v |-> 0]

\* parseFloat of a field of the response: a missing field gives NaN.
\* Coordinates of a response are in hundredths of a degree.
parseFloat(x) == IF x.t = "num" THEN x ELSE NaN

\* Math.round(x * 10^FUZZY_PRECISION) / 10^FUZZY_PRECISION: hundredths of a
\* degree to tenths, halves rounded towards +infinity; NaN stays NaN.
RoundFuzzy(x) ==
    IF x.t = "num" THEN Num((x.v + 5) \div (10 ^ FUZZY_PRECISION)) ELSE NaN

\* a || b || 'Unknown' on strings ("" stands for a missing field)
CountryCodeOf(data) ==
    IF data.country_code # "" THEN data.country_code
    ELSE IF data.country # "" THEN data.country
    ELSE "Unknown"

\* COUNTRY_NAMES[countryCode] || countryCode
CountryNameOf(countryCode) ==
    IF countryCode \in DOMAIN COUNTRY_NAMES THEN COUNTRY_NAMES[countryCode]
    ELSE countryCode

\* data.city || 'Unknown City'
CityOf(data) == IF data.city # "" THEN data.city ELSE "Unknown City"

\* The bodies api.geojs.io can answer with: all fields, or none of them.
Responses ==
    { [country_code |-> "US", country |-> "United States", city |-> "New York",
       latitude |-> Num(4071), longitude |-> Num(-7401)],
      [country_code |-> "", country |-> "", city |-> "",
       latitude |-> Undefined, longitude |-> Undefined] }

\* ------------------------------------------------------------ the store
EmptyData == [countries |-> <<>>, fuzzyLocations |-> <<>>, ephemeralVisitors |-> <<>>]

\* The countries object, as the sequence of its properties in insertion order
\* (the order Object.values and JSON.stringify enumerate string keys in):
\* each element is the key of a property with the fields of its value.
HasCountry(countries, code) == \E i \in DOMAIN countries : countries[i].key = code

IndexOfCountry(countries, code) ==
    CHOOSE i \in DOMAIN countries : countries[i].key = code

\* the counter incremented in an else branch: a new aggregate stays at 0
IncrementCountry_ElseIncrement(countries, code, name) ==
    IF HasCountry(countries, code)
    THEN [countries EXCEPT ![IndexOfCountry(countries, code)].count = @ + 1]
    ELSE Append(countries, [key |-> code, code |-> code, name |-> name, count |-> 0])

\* if (!countries[code]) countries[code] = {code, name, count: 0}; countries[code].count++
IncrementCountry(countries, code, name) ==
    LET ensured == IF HasCountry(countries, code) THEN countries
                   ELSE Append(countries,
                               [key |-> code, code |-> code, name |-> name, count |-> 0])
        i == IndexOfCountry(ensured, code)
    IN [ensured EXCEPT ![i].count = @ + 1]

RECURSIVE SumCounts(_)
SumCounts(countries) ==
    IF countries = <<>> THEN 0
    ELSE Head(countries).count + SumCounts(Tail(countries))

\* array.slice(-n)
SliceLast(seq, n) ==
    IF Len(seq) <= n THEN seq ELSE SubSeq(seq, Len(seq) - n + 1, Len(seq))

\* JSON.stringify of a number: NaN is written as null.
JsonNumber(x) == IF x.t = "num" THEN x ELSE JsonNull

\* JSON.stringify(visitorData): the whole structure, ephemeralVisitors included.
Stringify(vd) ==
    [countries |-> vd.countries,
     fuzzyLocations |->
        [i \in DOMAIN vd.fuzzyLocations |->
            [vd.fuzzyLocations[i] EXCEPT !.lat = JsonNumber(@), !.lon = JsonNumber(@)]],
     ephemeralVisitors |-> vd.ephemeralVisitors]

\* JSON.parse of a blob written by Stringify
Parse(blob) ==
    [countries |-> blob.countries,
     fuzzyLocations |-> blob.fuzzyLocations,
     ephemeralVisitors |-> blob.ephemeralVisitors]

\* -------------------------------------------------------------- the state
\* The state as one record, the argument and the result of every handler.
St ==
    [currentMode |-> currentMode, visitorData |-> visitorData,
     hasConsent |-> hasConsent, lsMode |-> lsMode, lsConsent |-> lsConsent,
     lsData |-> lsData, sessionTracked |-> sessionTracked, pending |-> pending,
     now |-> now, visits |-> visits, dom |-> dom]

\* The page as served, before the module has written to it.
InitialDom ==
    [totalVisitors |-> 0, uniqueCountries |-> 0,
     countryList |-> [kind |-> "initial", items |-> <<>>],
     worldMap |-> [kind |-> "initial", rows |-> <<>>],
     userLocation |-> [kind |-> "initial", city |-> "", name |-> ""],
     cookieConsent |-> FALSE]

\* The module as a second tab would hold it, before that tab has run init:
\* the variables of lines 50-52, its sessionStorage flag, its suspended
\* calls and its page.
Tab2Closed ==
    [currentMode |-> DEFAULT_MODE, visitorData |-> EmptyData, hasConsent |-> FALSE,
     sessionTracked |-> FALSE, pending |-> 0, dom |-> InitialDom]

\* ------------------------------------------------------------- rendering
\* array.sort((a, b) => b.count - a.count): stable, by count descending.
RECURSIVE InsertByCount(_, _)
InsertByCount(sorted, x) ==
    IF sorted = <<>> THEN <<x>>
    ELSE IF Head(sorted).count >= x.count
         THEN <<Head(sorted)>> \o InsertByCount(Tail(sorted), x)
         ELSE <<x>> \o sorted

RECURSIVE SortByCountDesc(_)
SortByCountDesc(seq) ==
    IF seq = <<>> THEN <<>>
    ELSE InsertByCount(SortByCountDesc(SubSeq(seq, 1, Len(seq) - 1)), seq[Len(seq)])

\* the per-country counts renderCountryList builds from the ephemeral list
RECURSIVE EphemeralCounts(_)
EphemeralCounts(visitors) ==
    IF visitors = <<>> THEN <<>>
    ELSE LET v == visitors[Len(visitors)]
         IN IncrementCountry(EphemeralCounts(SubSeq(visitors, 1, Len(visitors) - 1)),
                             v.country, v.countryName)

getFlagEmoji(countryCode) ==
    IF countryCode = "" \/ countryCode = "Unknown" THEN "globe" ELSE countryCode

Min(a, b) == IF a <= b THEN a ELSE b

renderCountryList(s) ==
    IF s.currentMode = "disabled"
    THEN [s EXCEPT !.dom.countryList = [kind |-> "disabled", items |-> <<>>]]
    ELSE LET countries == IF s.currentMode = "ephemeral"
                          THEN EphemeralCounts(s.visitorData.ephemeralVisitors)
                          ELSE s.visitorData.countries
         IN IF countries = <<>>
            THEN [s EXCEPT !.dom.countryList = [kind |-> "empty", items |-> <<>>]]
            ELSE [s EXCEPT !.dom.countryList =
                      [kind |-> "items", items |-> SortByCountDesc(countries)]]

updateUI(s) ==
    LET vd == s.visitorData
        total == IF s.currentMode \in {"country", "fuzzy"} THEN SumCounts(vd.countries)
                 ELSE IF s.currentMode = "ephemeral" THEN Len(vd.ephemeralVisitors)
                 ELSE 0
        unique == IF s.currentMode \in {"country", "fuzzy"} THEN Len(vd.countries)
                  ELSE IF s.currentMode = "ephemeral"
                       THEN Cardinality({vd.ephemeralVisitors[i].country :
                                            i \in DOMAIN vd.ephemeralVisitors})
                  ELSE 0
    IN renderCountryList([s EXCEPT !.dom.totalVisitors = total,
                                   !.dom.uniqueCountries = unique])

\* the rows of the textual map, had slice(0, 5) been applied before the sort
getMapVisualRepresentation_SliceThenSort(s) ==
    LET top == SortByCountDesc(SubSeq(s.visitorData.countries, 1,
                                      Min(5, Len(s.visitorData.countries))))
    IN [i \in DOMAIN top |->
           [flag |-> getFlagEmoji(top[i].code), name |-> top[i].name,
            bar |-> Min((top[i].count + 1) \div 2, 20), count |-> top[i].count]]

\* the rows of the textual map: flag, name, length of the bar, count
getMapVisualRepresentation(s) ==
    LET top == SubSeq(SortByCountDesc(s.visitorData.countries), 1,
                      Min(5, Len(s.visitorData.countries)))
    IN [i \in DOMAIN top |->
           [flag |-> getFlagEmoji(top[i].code), name |-> top[i].name,
            bar |-> Min((top[i].count + 1) \div 2, 20), count |-> top[i].count]]

\* renderMap, had the sort been applied to the countries of the store itself
renderMap_SortsStore(s) ==
    IF s.currentMode = "disabled"
    THEN [s EXCEPT !.dom.worldMap = [kind |-> "disabled", rows |-> <<>>]]
    ELSE [s EXCEPT !.dom.worldMap =
              [kind |-> "map", rows |-> getMapVisualRepresentation(s)],
                   !.visitorData.countries = SortByCountDesc(@)]

renderMap(s) ==
    IF s.currentMode = "disabled"
    THEN [s EXCEPT !.dom.worldMap = [kind |-> "disabled", rows |-> <<>>]]
    ELSE [s EXCEPT !.dom.worldMap =
              [kind |-> "map", rows |-> getMapVisualRepresentation(s)]]

showCookieConsent(s) == [s EXCEPT !.dom.cookieConsent = TRUE]

hideCookieConsent(s) == [s EXCEPT !.dom.cookieConsent = FALSE]

\* ------------------------------------------------- preferences and store
loadPreferences(s) ==
    [s EXCEPT !.currentMode = IF s.lsMode # Missing /\ s.lsMode # "" /\ s.lsMode \in Modes
                              THEN s.lsMode ELSE @,
              !.hasConsent = (s.lsConsent = "true")]

\* No blob: visitorData is left as it is. A blob written by saveVisitorData
\* parses to a structure that has its three fields.
loadVisitorData(s) ==
    IF s.lsData = <<>> THEN s
    ELSE [s EXCEPT !.visitorData = Parse(s.lsData[1])]

saveVisitorData(s) == [s EXCEPT !.lsData = <<Stringify(s.visitorData)>>]

\* ---------------------------------------------------------------- tracking
\* trackCurrentVisitor up to its first await: the early returns, or one more
\* call suspended at the fetch.
trackCurrentVisitor(s) ==
    IF s.currentMode = "disabled" \/ ~s.hasConsent THEN s
    ELSE IF s.sessionTracked THEN updateUI(s)
    ELSE [s EXCEPT !.pending = @ + 1]

\* trackCountryOnly with saveVisitorData called before the counter is incremented
trackCountryOnly_SavesFirst(s, data) ==
    LET countryCode == CountryCodeOf(data)
        countryName == CountryNameOf(countryCode)
        saved == saveVisitorData(s)
    IN [saved EXCEPT !.visitorData.countries =
                         IncrementCountry(@, countryCode, countryName),
                     !.visits = @ + 1,
                     !.dom.userLocation =
                         [kind |-> "country", city |-> "", name |-> countryName]]

\* trackCountryOnly that reads the store back from localStorage before it counts
trackCountryOnly_ReloadsFirst(s, data) ==
    LET countryCode == CountryCodeOf(data)
        countryName == CountryNameOf(countryCode)
        s0 == loadVisitorData(s)
    IN [saveVisitorData(
           [s0 EXCEPT !.visitorData.countries =
                          IncrementCountry(@, countryCode, countryName),
                      !.visits = @ + 1])
        EXCEPT !.dom.userLocation =
                   [kind |-> "country", city |-> "", name |-> countryName]]

trackCountryOnly(s, data) ==
    LET countryCode == CountryCodeOf(data)
        countryName == CountryNameOf(countryCode)
    IN [saveVisitorData(
           [s EXCEPT !.visitorData.countries =
                         IncrementCountry(@, countryCode, countryName),
                     !.visits = @ + 1])
        EXCEPT !.dom.userLocation =
                   [kind |-> "country", city |-> "", name |-> countryName]]

\* trackFuzzyLocation without the cut to the last FuzzyLimit entries
trackFuzzyLocation_NoLimit(s, data, t) ==
    LET countryCode == CountryCodeOf(data)
        countryName == CountryNameOf(countryCode)
    IN [saveVisitorData(
           [s EXCEPT !.visitorData.fuzzyLocations =
                         Append(@, [lat |-> RoundFuzzy(parseFloat(data.latitude)),
                                    lon |-> RoundFuzzy(parseFloat(data.longitude)),
                                    country |-> countryCode, timestamp |-> t]),
                     !.visitorData.countries =
                         IncrementCountry(@, countryCode, countryName),
                     !.now = t,
                     !.visits = @ + 1])
        EXCEPT !.dom.userLocation =
                   [kind |-> "fuzzy", city |-> CityOf(data), name |-> countryName]]

\* trackFuzzyLocation without the block that increments the country counter
trackFuzzyLocation_NoCount(s, data, t) ==
    LET lat == parseFloat(data.latitude)
        lon == parseFloat(data.longitude)
        countryCode == CountryCodeOf(data)
        countryName == CountryNameOf(countryCode)
        pushed == Append(s.visitorData.fuzzyLocations,
                         [lat |-> RoundFuzzy(lat), lon |-> RoundFuzzy(lon),
                          country |-> countryCode, timestamp |-> t])
    IN [saveVisitorData(
           [s EXCEPT !.visitorData.fuzzyLocations =
                         IF Len(pushed) > FuzzyLimit
                         THEN SliceLast(pushed, FuzzyLimit) ELSE pushed,
                     !.now = t,
                     !.visits = @ + 1])
        EXCEPT !.dom.userLocation =
                   [kind |-> "fuzzy", city |-> CityOf(data), name |-> countryName]]

\* t is the value Date.now() returns
trackFuzzyLocation(s, data, t) ==
    LET lat == parseFloat(data.latitude)
        lon == parseFloat(data.longitude)
        countryCode == CountryCodeOf(data)
        countryName == CountryNameOf(countryCode)
        pushed == Append(s.visitorData.fuzzyLocations,
                         [lat |-> RoundFuzzy(lat), lon |-> RoundFuzzy(lon),
                          country |-> countryCode, timestamp |-> t])
    IN [saveVisitorData(
           [s EXCEPT !.visitorData.fuzzyLocations =
                         IF Len(pushed) > FuzzyLimit
                         THEN SliceLast(pushed, FuzzyLimit) ELSE pushed,
                     !.visitorData.countries =
                         IncrementCountry(@, countryCode, countryName),
                     !.now = t,
                     !.visits = @ + 1])
        EXCEPT !.dom.userLocation =
                   [kind |-> "fuzzy", city |-> CityOf(data), name |-> countryName]]

\* trackEphemeral with the counter block of the other two modes pasted in
trackEphemeral_AlsoCounts(s, data, t) ==
    LET countryCode == CountryCodeOf(data)
        countryName == CountryNameOf(countryCode)
    IN [s EXCEPT !.visitorData.ephemeralVisitors =
                     Append(@, [country |-> countryCode, countryName |-> countryName,
                                city |-> CityOf(data), timestamp |-> t]),
                 !.visitorData.countries =
                     IncrementCountry(@, countryCode, countryName),
                 !.now = t,
                 !.visits = @ + 1,
                 !.dom.userLocation =
                     [kind |-> "ephemeral", city |-> CityOf(data), name |-> countryName]]

\* t is the value Date.now() returns; nothing is saved
trackEphemeral(s, data, t) ==
    LET countryCode == CountryCodeOf(data)
        countryName == CountryNameOf(countryCode)
    IN [s EXCEPT !.visitorData.ephemeralVisitors =
                     Append(@, [country |-> countryCode, countryName |-> countryName,
                                city |-> CityOf(data), timestamp |-> t]),
                 !.now = t,
                 !.visits = @ + 1,
                 !.dom.userLocation =
                     [kind |-> "ephemeral", city |-> CityOf(data), name |-> countryName]]

\* trackCurrentVisitor from the resolution of fetch and response.json() to its
\* end: the switch reads currentMode as it is now, consent is not read again.
trackResumed(s, data, t) ==
    LET s1 == [s EXCEPT !.pending = @ - 1]
        s2 == CASE s1.currentMode = "country" -> trackCountryOnly(s1, data)
                [] s1.currentMode = "fuzzy" -> trackFuzzyLocation(s1, data, t)
                [] s1.currentMode = "ephemeral" -> trackEphemeral(s1, data, t)
                [] OTHER -> s1
    IN renderMap(updateUI([s2 EXCEPT !.sessionTracked = TRUE]))

\* the catch block with the session flag set on the way out, as a finally would
trackFailed_SetsFlag(s) ==
    [s EXCEPT !.pending = @ - 1,
              !.sessionTracked = TRUE,
              !.dom.userLocation = [kind |-> "unable", city |-> "", name |-> ""]]

\* the catch block: fetch or response.json() rejected
trackFailed(s) ==
    [s EXCEPT !.pending = @ - 1,
              !.dom.userLocation = [kind |-> "unable", city |-> "", name |-> ""]]

\* ------------------------------------------------------------- public API
init(s) ==
    LET s1 == loadVisitorData(loadPreferences(s))
        s2 == IF ~s1.hasConsent THEN showCookieConsent(s1) ELSE trackCurrentVisitor(s1)
    IN renderMap(updateUI(s2))

\* changeMode without the removeItem of its 'disabled' branch
changeMode_KeepsFlagOnDisable(s, newMode) ==
    LET s1 == [s EXCEPT !.currentMode = newMode, !.lsMode = newMode]
        s3 == IF newMode # "disabled" /\ s1.hasConsent
              THEN trackCurrentVisitor([s1 EXCEPT !.sessionTracked = FALSE])
              ELSE s1
    IN renderMap(updateUI(s3))

\* changeMode without the removeItem that precedes its call of trackCurrentVisitor
changeMode_NoRearm(s, newMode) ==
    LET s1 == [s EXCEPT !.currentMode = newMode, !.lsMode = newMode]
        s2 == IF newMode = "disabled" THEN [s1 EXCEPT !.sessionTracked = FALSE] ELSE s1
        s3 == IF newMode # "disabled" /\ s2.hasConsent
              THEN trackCurrentVisitor(s2)
              ELSE s2
    IN renderMap(updateUI(s3))

changeMode(s, newMode) ==
    LET s1 == [s EXCEPT !.currentMode = newMode, !.lsMode = newMode]
        s2 == IF newMode = "disabled" THEN [s1 EXCEPT !.sessionTracked = FALSE] ELSE s1
        s3 == IF newMode # "disabled" /\ s2.hasConsent
              THEN trackCurrentVisitor([s2 EXCEPT !.sessionTracked = FALSE])
              ELSE s2
    IN renderMap(updateUI(s3))

\* acceptCookies that also selects the default mode
acceptCookies_ResetsMode(s) ==
    trackCurrentVisitor(
        hideCookieConsent([s EXCEPT !.hasConsent = TRUE, !.lsConsent = "true",
                                    !.currentMode = DEFAULT_MODE,
                                    !.lsMode = DEFAULT_MODE]))

\* acceptCookies with the call of trackCurrentVisitor written twice
acceptCookies_TracksTwice(s) ==
    trackCurrentVisitor(trackCurrentVisitor(
        hideCookieConsent([s EXCEPT !.hasConsent = TRUE, !.lsConsent = "true"])))

acceptCookies(s) ==
    trackCurrentVisitor(
        hideCookieConsent([s EXCEPT !.hasConsent = TRUE, !.lsConsent = "true"]))

\* rejectCookies without the setItem of the mode key
rejectCookies_ModeNotPersisted(s) ==
    renderMap(updateUI(hideCookieConsent(
        [s EXCEPT !.hasConsent = FALSE, !.lsConsent = "false",
                  !.currentMode = "disabled"])))

rejectCookies(s) ==
    renderMap(updateUI(hideCookieConsent(
        [s EXCEPT !.hasConsent = FALSE, !.lsConsent = "false",
                  !.lsMode = "disabled", !.currentMode = "disabled"])))

\* clearAllData without the removeItem of the data key
clearAllData_KeepsBlob(s, confirmed) ==
    IF confirmed
    THEN renderMap(updateUI([s EXCEPT !.sessionTracked = FALSE,
                                      !.visitorData = EmptyData]))
    ELSE s

\* clearAllData without the reset of visitorData
clearAllData_KeepsMemory(s, confirmed) ==
    IF confirmed
    THEN renderMap(updateUI([s EXCEPT !.lsData = <<>>, !.sessionTracked = FALSE]))
    ELSE s

\* confirmed is the answer to the confirm() dialog
clearAllData(s, confirmed) ==
    IF confirmed
    THEN renderMap(updateUI([s EXCEPT !.lsData = <<>>, !.sessionTracked = FALSE,
                                      !.visitorData = EmptyData]))
    ELSE s

\* the statistics of the public API, always read from the country map
getStats(s) ==
    [totalVisitors |-> SumCounts(s.visitorData.countries),
     uniqueCountries |-> Len(s.visitorData.countries),
     mode |-> s.currentMode,
     hasConsent |-> s.hasConsent]

\* The script evaluated on a fresh page of the same tab: module state at its
\* initial values, the calls suspended in the old page gone; both storages
\* and the clock are kept.
construct(s) ==
    [s EXCEPT !.currentMode = DEFAULT_MODE, !.visitorData = EmptyData,
              !.hasConsent = FALSE, !.pending = 0, !.dom = InitialDom]

\* ================================================== the basic variant
\* 24 * 60 * 60 * 1000 milliseconds
DayMs == 24 * 60 * 60 * 1000

\* Epoch milliseconds do not fit the 32-bit integers of TLC: an instant is
\* day * DayMs + ms, kept as the pair, with 0 <= ms < DayMs.
Time(day, ms) == [day |-> day, ms |-> ms]

\* the instant d milliseconds after t
TimePlus(t, d) ==
    Time(t.day + ((t.ms + d) \div DayMs), (t.ms + d) % DayMs)

\* (t - ts) < 24 * 60 * 60 * 1000
LessThanDayApart(t, ts) ==
    \/ t.day - ts.day < 1
    \/ t.day - ts.day = 1 /\ t.ms < ts.ms
\* length the entry list is cut back to
EntryLimit == 1000

TimezoneKeys ==
    {"America/New_York", "America/Chicago", "America/Denver",
     "America/Los_Angeles", "America/Toronto", "Europe/London",
     "Europe/Paris", "Europe/Berlin", "Europe/Madrid", "Europe/Rome",
     "Asia/Tokyo", "Asia/Shanghai", "Asia/Seoul", "Asia/Singapore",
     "Asia/Dubai", "Asia/Kolkata", "Australia/Sydney", "Pacific/Auckland",
     "America/Sao_Paulo", "America/Mexico_City", "Africa/Johannesburg",
     "Africa/Cairo"}

\* timezoneMap: coordinates in hundredths of a degree (40.7 is 4070)
TimezoneMap ==
    [tz \in TimezoneKeys |->
        CASE tz = "America/New_York" ->
                 [city |-> "New York", country |-> "United States", countryCode |-> "US",
                  lat |-> 4070, lon |-> -7400]
          [] tz = "America/Chicago" ->
                 [city |-> "Chicago", country |-> "United States", countryCode |-> "US",
                  lat |-> 4190, lon |-> -8760]
          [] tz = "America/Denver" ->
                 [city |-> "Denver", country |-> "United States", countryCode |-> "US",
                  lat |-> 3970, lon |-> -10490]
          [] tz = "America/Los_Angeles" ->
                 [city |-> "Los Angeles", country |-> "United States", countryCode |-> "US",
                  lat |-> 3410, lon |-> -11820]
          [] tz = "America/Toronto" ->
                 [city |-> "Toronto", country |-> "Canada", countryCode |-> "CA",
                  lat |-> 4370, lon |-> -7940]
          [] tz = "Europe/London" ->
                 [city |-> "London", country |-> "United Kingdom", countryCode |-> "GB",
                  lat |-> 5150, lon |-> -10]
          [] tz = "Europe/Paris" ->
                 [city |-> "Paris", country |-> "France", countryCode |-> "FR",
                  lat |-> 4890, lon |-> 240]
          [] tz = "Europe/Berlin" ->
                 [city |-> "Berlin", country |-> "Germany", countryCode |-> "DE",
                  lat |-> 5250, lon |-> 1340]
          [] tz = "Europe/Madrid" ->
                 [city |-> "Madrid", country |-> "Spain", countryCode |-> "ES",
                  lat |-> 4040, lon |-> -370]
          [] tz = "Europe/Rome" ->
                 [city |-> "Rome", country |-> "Italy", countryCode |-> "IT",
                  lat |-> 4190, lon |-> 1250]
          [] tz = "Asia/Tokyo" ->
                 [city |-> "Tokyo", country |-> "Japan", countryCode |-> "JP",
                  lat |-> 3570, lon |-> 13970]
          [] tz = "Asia/Shanghai" ->
                 [city |-> "Shanghai", country |-> "China", countryCode |-> "CN",
                  lat |-> 3120, lon |-> 12150]
          [] tz = "Asia/Seoul" ->
                 [city |-> "Seoul", country |-> "South Korea", countryCode |-> "KR",
                  lat |-> 3760, lon |-> 12700]
          [] tz = "Asia/Singapore" ->
                 [city |-> "Singapore", country |-> "Singapore", countryCode |-> "SG",
                  lat |-> 130, lon |-> 10380]
          [] tz = "Asia/Dubai" ->
                 [city |-> "Dubai", country |-> "UAE", countryCode |-> "AE",
                  lat |-> 2530, lon |-> 5530]
          [] tz = "Asia/Kolkata" ->
                 [city |-> "Mumbai", country |-> "India", countryCode |-> "IN",
                  lat |-> 1910, lon |-> 7290]
          [] tz = "Australia/Sydney" ->
                 [city |-> "Sydney", country |-> "Australia", countryCode |-> "AU",
                  lat |-> -3390, lon |-> 15120]
          [] tz = "Pacific/Auckland" ->
                 [city |-> "Auckland", country |-> "New Zealand", countryCode |-> "NZ",
                  lat |-> -3680, lon |-> 17480]
          [] tz = "America/Sao_Paulo" ->
                 [city |-> "Sao Paulo", country |-> "Brazil", countryCode |-> "BR",
                  lat |-> -2350, lon |-> -4660]
          [] tz = "America/Mexico_City" ->
                 [city |-> "Mexico City", country |-> "Mexico", countryCode |-> "MX",
                  lat |-> 1940, lon |-> -9910]
          [] tz = "Africa/Johannesburg" ->
                 [city |-> "Johannesburg", country |-> "South Africa", countryCode |-> "ZA",
                  lat |-> -2620, lon |-> 2800]
          [] tz = "Africa/Cairo" ->
                 [city |-> "Cairo", country |-> "Egypt", countryCode |-> "EG",
                  lat |-> 3000, lon |-> 3120]]

\* the timezones a browser reports: keys of the table and one that is not
Timezones == {"Europe/Paris", "America/New_York", "America/Chicago", "Mars/Olympus"}

\* the state of the basic variant as one record
PcSt ==
    [storage |-> pcStorage, markers |-> pcMarkers, stats |-> pcStats,
     location |-> pcLocation, now |-> pcNow, loads |-> pcLoads,
     timezone |-> pcTimezone]

\* getLocationFromTimezone over a table that holds a second decimal
getLocationFromTimezone_Unrounded(timezone, t) ==
    IF timezone \in DOMAIN TimezoneMap
    THEN << [city |-> TimezoneMap[timezone].city,
             country |-> TimezoneMap[timezone].country,
             countryCode |-> TimezoneMap[timezone].countryCode,
             lat |-> TimezoneMap[timezone].lat + 1,
             lon |-> TimezoneMap[timezone].lon,
             timestamp |-> t,
             detectionMethod |-> "timezone"] >>
    ELSE <<>>

\* getLocationFromTimezone with a default location for a timezone it does not know
getLocationFromTimezone_Defaults(timezone, t) ==
    LET known == IF timezone \in DOMAIN TimezoneMap THEN timezone ELSE "Europe/London"
    IN << [city |-> TimezoneMap[known].city,
           country |-> TimezoneMap[known].country,
           countryCode |-> TimezoneMap[known].countryCode,
           lat |-> TimezoneMap[known].lat,
           lon |-> TimezoneMap[known].lon,
           timestamp |-> t,
           detectionMethod |-> "timezone"] >>

\* null is <<>>, a location is <<location>>; t is the value Date.now() returns
getLocationFromTimezone(timezone, t) ==
    IF timezone \in DOMAIN TimezoneMap
    THEN << [city |-> TimezoneMap[timezone].city,
             country |-> TimezoneMap[timezone].country,
             countryCode |-> TimezoneMap[timezone].countryCode,
             lat |-> TimezoneMap[timezone].lat,
             lon |-> TimezoneMap[timezone].lon,
             timestamp |-> t,
             detectionMethod |-> "timezone"] >>
    ELSE <<>>

\* METHOD 1 only: the API call of METHOD 2 is commented out
getApproximateLocation(timezone, t) == getLocationFromTimezone(timezone, t)

\* JSON.stringify of the entry list, and JSON.parse of what it wrote
PCVM_Stringify(entries) ==
    [i \in DOMAIN entries |->
        [city |-> entries[i].city, country |-> entries[i].country,
         countryCode |-> entries[i].countryCode, lat |-> entries[i].lat,
         lon |-> entries[i].lon, timestamp |-> entries[i].timestamp,
         method |-> entries[i].method]]

PCVM_Parse(blob) ==
    [i \in DOMAIN blob |->
        [city |-> blob[i].city, country |-> blob[i].country,
         countryCode |-> blob[i].countryCode, lat |-> blob[i].lat,
         lon |-> blob[i].lon, timestamp |-> blob[i].timestamp,
         method |-> blob[i].method]]

getStoredData(b) == IF b.storage = <<>> THEN <<>> ELSE PCVM_Parse(b.storage[1])

\* the entry storeVisitorData builds from a location
EntryOf(location) ==
    [city |-> location.city, country |-> location.country,
     countryCode |-> location.countryCode, lat |-> location.lat,
     lon |-> location.lon, timestamp |-> location.timestamp,
     method |-> IF location.detectionMethod # "" THEN location.detectionMethod ELSE "api"]

\* isDuplicate with <= in place of <
isDuplicate_Inclusive(entries, entry, t) ==
    \E i \in DOMAIN entries :
        /\ entries[i].city = entry.city
        /\ entries[i].country = entry.country
        /\ \/ LessThanDayApart(t, entries[i].timestamp)
           \/ t = TimePlus(entries[i].timestamp, DayMs)

\* t is the value Date.now() returns in the duplicate test
isDuplicate(entries, entry, t) ==
    \E i \in DOMAIN entries :
        /\ entries[i].city = entry.city
        /\ entries[i].country = entry.country
        /\ LessThanDayApart(t, entries[i].timestamp)

\* storeVisitorData without the cut to the last EntryLimit entries
storeVisitorData_NoLimit(b, location, t) ==
    LET entries == getStoredData(b)
        entry == EntryOf(location)
    IN IF isDuplicate(entries, entry, t) THEN [b EXCEPT !.now = t]
       ELSE [b EXCEPT !.now = t,
                      !.storage = << PCVM_Stringify(Append(entries, entry)) >>]

\* storeVisitorData that refreshes the timestamp of the entry a duplicate matches
storeVisitorData_TouchesDuplicate(b, location, t) ==
    LET entries == getStoredData(b)
        entry == EntryOf(location)
        pushed == Append(entries, entry)
    IN IF isDuplicate(entries, entry, t)
       THEN [b EXCEPT !.now = t,
                      !.storage = << PCVM_Stringify(
                          [i \in DOMAIN entries |->
                              IF entries[i].city = entry.city
                                 /\ entries[i].country = entry.country
                              THEN [entries[i] EXCEPT !.timestamp = entry.timestamp]
                              ELSE entries[i]]) >>]
       ELSE [b EXCEPT !.now = t,
                      !.storage = << PCVM_Stringify(
                          IF Len(pushed) > EntryLimit
                          THEN SliceLast(pushed, EntryLimit) ELSE pushed) >>]

storeVisitorData(b, location, t) ==
    LET entries == getStoredData(b)
        entry == EntryOf(location)
        pushed == Append(entries, entry)
    IN IF isDuplicate(entries, entry, t) THEN [b EXCEPT !.now = t]
       ELSE [b EXCEPT !.now = t,
                      !.storage = << PCVM_Stringify(
                          IF Len(pushed) > EntryLimit
                          THEN SliceLast(pushed, EntryLimit) ELSE pushed) >>]

\* location.count || 1, and the size min(15 + count * 2, 40) of the icon
addMarker(b, location, count) ==
    LET c == IF count = 0 THEN 1 ELSE count
    IN [b EXCEPT !.markers =
           Append(@, [city |-> location.city, country |-> location.country,
                      lat |-> location.lat, lon |-> location.lon,
                      count |-> c, size |-> Min(15 + c * 2, 40)])]

\* cityGroups: one group per `${city},${country}`, in order of first
\* appearance, carrying the first entry's fields and the number of entries.
\* The forEach over the entries is evaluated by halves, so that the depth
\* of the evaluation stays logarithmic in the length of the list.
RECURSIVE MergeGroups(_, _)
MergeGroups(groups, later) ==
    IF later = <<>> THEN groups
    ELSE LET g == Head(later)
             Same(h) == h.city = g.city /\ h.country = g.country
             merged == IF \E i \in DOMAIN groups : Same(groups[i])
                       THEN [i \in DOMAIN groups |->
                                IF Same(groups[i])
                                THEN [groups[i] EXCEPT !.count = @ + g.count]
                                ELSE groups[i]]
                       ELSE Append(groups, g)
         IN MergeGroups(merged, Tail(later))

RECURSIVE CityGroups(_)
CityGroups(entries) ==
    IF entries = <<>> THEN <<>>
    ELSE IF Len(entries) = 1
    THEN << [city |-> entries[1].city, country |-> entries[1].country,
             lat |-> entries[1].lat, lon |-> entries[1].lon, count |-> 1] >>
    ELSE LET half == Len(entries) \div 2
         IN MergeGroups(CityGroups(SubSeq(entries, 1, half)),
                        CityGroups(SubSeq(entries, half + 1, Len(entries))))

RECURSIVE AddMarkers(_, _)
AddMarkers(b, groups) ==
    IF groups = <<>> THEN b
    ELSE AddMarkers(addMarker(b, Head(groups), Head(groups).count), Tail(groups))

PCVM_loadVisitorData(b) == AddMarkers(b, CityGroups(getStoredData(b)))

\* t1 and t2 are the readings of Date.now() in the lookup and in the
\* duplicate test
addCurrentVisitor(b, timezone, t1, t2) ==
    LET location == getApproximateLocation(timezone, t1)
        b1 == [b EXCEPT !.location = location, !.now = t1, !.timezone = timezone]
    IN IF location # <<>>
       THEN addMarker(storeVisitorData(b1, location[1], t2), location[1], 0)
       ELSE b1

updateStats(b) ==
    LET entries == getStoredData(b)
    IN [b EXCEPT !.stats =
           [total |-> Len(entries),
            countries |-> Cardinality({entries[i].country : i \in DOMAIN entries}),
            cities |-> Cardinality({<<entries[i].city, entries[i].country>> :
                                       i \in DOMAIN entries})]]

\* init with updateStats called before addCurrentVisitor
PCVM_init_StatsFirst(b, timezone, t1, t2) ==
    addCurrentVisitor(
        updateStats(PCVM_loadVisitorData([b EXCEPT !.markers = <<>>, !.loads = @ + 1])),
        timezone, t1, t2)

\* new PrivacyCompliantVisitorMap() on DOMContentLoaded: the constructor and
\* init, whose awaits wait for nothing but the microtask queue
PCVM_init(b, timezone, t1, t2) ==
    updateStats(addCurrentVisitor(
        PCVM_loadVisitorData([b EXCEPT !.markers = <<>>, !.loads = @ + 1]),
        timezone, t1, t2))

\* ============================================ loading a blob of any shape
\* The value a field of the parsed blob holds: no (or a falsy) value, a
\* plain object, an array, or a number other than 0; containers are empty.
FieldKinds == {"absent", "object", "array", "number"}

\* What the text under the key parses to: nothing is stored, the text is no
\* JSON, or it is JSON for null, a number, an array or an object.
RawBlobs ==
    { [top |-> k, countries |-> "absent", fuzzyLocations |-> "absent",
       ephemeralVisitors |-> "absent"] :
         k \in {"missing", "garbage", "null", "number", "array"} }
    \cup
    { [top |-> "object", countries |-> c, fuzzyLocations |-> f,
       ephemeralVisitors |-> e] : c \in FieldKinds, f \in FieldKinds, e \in FieldKinds }

\* { countries: {}, fuzzyLocations: [], ephemeralVisitors: [] }
FreshKinds ==
    [top |-> "object", countries |-> "object", fuzzyLocations |-> "array",
     ephemeralVisitors |-> "array"]

\* loadVisitorData of the mode-based variant. JSON.parse throws on text that
\* is no JSON, reading a property of null throws, and in strict mode so does
\* the assignment of a property to a number: the catch block resets the
\* data. An array or an object is kept, with each missing field filled in.
LoadKinds(data, raw) ==
    IF raw.top = "missing" THEN data
    ELSE IF raw.top \in {"garbage", "null", "number"} THEN FreshKinds
    ELSE [top |-> raw.top,
          countries |-> IF raw.countries = "absent" THEN "object" ELSE raw.countries,
          fuzzyLocations |->
              IF raw.fuzzyLocations = "absent" THEN "array" ELSE raw.fuzzyLocations,
          ephemeralVisitors |->
              IF raw.ephemeralVisitors = "absent" THEN "array"
              ELSE raw.ephemeralVisitors]

\* if (!countries[code]) countries[code] = {...}: a property can be set on an
\* object and on an array, on a number the assignment throws
CountKinds(data) ==
    IF data.countries \in {"object", "array"} THEN "ok" ELSE "throws"

\* x.push(...), x.map(...), x.forEach(...), x.some(...): functions of arrays only
ArrayCall(kind) == IF kind = "array" THEN "ok" ELSE "throws"

\* the switch of trackCurrentVisitor in an active mode; what it throws is
\* caught by the catch block of trackCurrentVisitor and nothing is recorded
TrackKinds(data, mode) ==
    LET thrown ==
          CASE mode = "country" -> CountKinds(data) = "throws"
            [] mode = "fuzzy" ->
                 ArrayCall(data.fuzzyLocations) = "throws" \/ CountKinds(data) = "throws"
            [] mode = "ephemeral" -> ArrayCall(data.ephemeralVisitors) = "throws"
    IN IF thrown THEN "caught" ELSE "ok"

\* updateUI with renderCountryList: Object.values and Object.keys take any
\* value, ephemeralVisitors.map and .forEach need an array; no caller of
\* updateUI catches what it throws
UpdateUIKinds(data, mode) ==
    IF mode = "ephemeral" /\ ArrayCall(data.ephemeralVisitors) = "throws"
    THEN "escaped" ELSE "ok"

\* renderMap and getStats read the data through Object.values only
RenderMapKinds(data, mode) == "ok"

\* getStoredData of the basic variant: [] when nothing is stored or the text
\* is no JSON, else whatever JSON.parse returned
StoredKind(raw) ==
    IF raw.top \in {"missing", "garbage"} THEN "array" ELSE raw.top

\* storeVisitorData calls visitorData.some inside the try of addCurrentVisitor
PCVM_StoreKinds(stored) == IF ArrayCall(stored) = "throws" THEN "caught" ELSE "ok"

\* loadVisitorData of the basic variant calls visitorData.forEach, and
\* updateStats reads visitorData.length and calls visitorData.map, in init,
\* which catches nothing
PCVM_LoadKinds(stored) == IF ArrayCall(stored) = "throws" THEN "escaped" ELSE "ok"

PCVM_StatsKinds(stored) == IF ArrayCall(stored) = "throws" THEN "escaped" ELSE "ok"

\* ---------------------------------------------------------------- actions
\* the bounds of the model: a step that would exceed them is not taken
Bounded(t) ==
    /\ t.pending <= MaxPending
    /\ t.visits <= MaxVisits

SetModule(t) ==
    /\ Bounded(t)
    /\ currentMode' = t.currentMode
    /\ visitorData' = t.visitorData
    /\ hasConsent' = t.hasConsent
    /\ lsMode' = t.lsMode
    /\ lsConsent' = t.lsConsent
    /\ lsData' = t.lsData
    /\ sessionTracked' = t.sessionTracked
    /\ pending' = t.pending
    /\ now' = t.now
    /\ visits' = t.visits
    /\ dom' = t.dom
    /\ UNCHANGED <<tab2, basicVars, loadVars, sectionVars, serverVars, gameVars>>

Set(t) ==
    /\ SetModule(t)
    /\ UNCHANGED flightVars

InitVisitorMap ==
    /\ currentMode = DEFAULT_MODE
    /\ visitorData = EmptyData
    /\ hasConsent = FALSE
    /\ lsMode = Missing
    /\ lsConsent = Missing
    /\ lsData = <<>>
    /\ sessionTracked = FALSE
    /\ pending = 0
    /\ now = 0
    /\ visits = 0
    /\ dom = InitialDom
    /\ tab2 = Tab2Closed

\* the basic variant in a browser that has never shown the page
InitBasicEmpty ==
    /\ pcStorage = <<>>
    /\ pcMarkers = <<>>
    /\ pcStats = [total |-> 0, countries |-> 0, cities |-> 0]
    /\ pcLocation = <<>>
    /\ pcNow = Time(0, 0)
    /\ pcLoads = 0
    /\ pcTimezone = Missing

\* no blob stored, nothing loaded yet
InitLoadEmpty ==
    /\ ldRaw = [top |-> "missing", countries |-> "absent",
                fuzzyLocations |-> "absent", ephemeralVisitors |-> "absent"]
    /\ ldData = FreshKinds
    /\ ldStored = "array"
    /\ ldPc = "start"
    /\ ldOutcome = "none"

\* the portfolio page is not open
InitSectionsClosed ==
    /\ secActive = {}
    /\ tbActive = {}
    /\ lastSection = Missing
    /\ scrollTop = 0

\* the serverless function is deployed and has received no request
InitServerIdle ==
    /\ srvPc = "idle"
    /\ srvReq = [method |-> "GET", ip |-> ""]
    /\ srvRes = <<>>
    /\ srvLog = <<>>
    /\ srvTried = <<>>
    /\ srvEscaped = FALSE
    /\ srvCount = 0

\* no trackCurrentVisitor call is suspended
InitNoFlight == inflight = <<>>

\* the title screen as served: startGame has not been called
InitTitleScreen ==
    /\ gmSeqs = <<>>
    /\ gmPage = [loadingActive |-> FALSE, loadingFill |-> 0, loadingPercent |-> 0,
                 loadingText |-> "", titleOpacity |-> 1, titleDisplay |-> "",
                 menuActive |-> FALSE, menuOpacity |-> 1]

Init ==
    /\ InitVisitorMap
    /\ InitBasicEmpty
    /\ InitLoadEmpty
    /\ InitSectionsClosed
    /\ InitServerIdle
    /\ InitTitleScreen
    /\ InitNoFlight

CallInit ==
    /\ Bounded(init(St))
    /\ Set(init(St))

CallChangeMode ==
    \E newMode \in ModeArgs :
        /\ Bounded(changeMode(St, newMode))
        /\ Set(changeMode(St, newMode))

CallAcceptCookies ==
    /\ Bounded(acceptCookies(St))
    /\ Set(acceptCookies(St))

CallRejectCookies ==
    /\ Bounded(rejectCookies(St))
    /\ Set(rejectCookies(St))

CallClearAllData ==
    \E confirmed \in BOOLEAN :
        /\ Bounded(clearAllData(St, confirmed))
        /\ Set(clearAllData(St, confirmed))

FetchResolves ==
    /\ pending > 0
    /\ \E data \in Responses, t \in now..MaxTime : Set(trackResumed(St, data, t))

FetchRejects ==
    /\ pending > 0
    /\ Set(trackFailed(St))

\* DOMContentLoaded of a reloaded page: the module is built and init runs
ReloadPage ==
    /\ Bounded(init(construct(St)))
    /\ Set(init(construct(St)))

Next ==
    \/ CallInit
    \/ CallChangeMode
    \/ CallAcceptCookies
    \/ CallRejectCookies
    \/ CallClearAllData
    \/ FetchResolves
    \/ FetchRejects
    \/ ReloadPage

Spec == Init /\ [][Next]_vars

\* ------------------------------------------- actions of the basic variant
\* The store after n daily visits from Paris, the first on day 1: each entry
\* is 24 hours older than the next, so none was a duplicate.
DailyVisits(n) ==
    [i \in 1..n |->
        EntryOf(getLocationFromTimezone("Europe/Paris", Time(i, 0))[1])]

\* time that passes before a page load, and inside one
Elapsed == {0, DayMs - 1}
Within == {0, 1}

PcSet(t) ==
    /\ pcStorage' = t.storage
    /\ pcMarkers' = t.markers
    /\ pcStats' = t.stats
    /\ pcLocation' = t.location
    /\ pcNow' = t.now
    /\ pcLoads' = t.loads
    /\ pcTimezone' = t.timezone
    /\ UNCHANGED <<modeVars, loadVars, sectionVars, serverVars, gameVars, flightVars>>

\* an empty store, or the store after EntryLimit - 1 daily visits
InitBasic ==
    /\ InitVisitorMap
    /\ \E n \in {0, EntryLimit - 1} :
          /\ pcStorage = IF n = 0 THEN <<>> ELSE << PCVM_Stringify(DailyVisits(n)) >>
          /\ pcNow = Time(n, 0)
    /\ pcMarkers = <<>>
    /\ pcStats = [total |-> 0, countries |-> 0, cities |-> 0]
    /\ pcLocation = <<>>
    /\ pcLoads = 0
    /\ pcTimezone = Missing
    /\ InitLoadEmpty
    /\ InitSectionsClosed
    /\ InitServerIdle
    /\ InitTitleScreen
    /\ InitNoFlight

PageLoad ==
    /\ pcLoads < MaxLoads
    /\ \E timezone \in Timezones, d \in Elapsed, w \in Within :
          PcSet(PCVM_init(PcSt, timezone, TimePlus(pcNow, d), TimePlus(pcNow, d + w)))

NextBasic == PageLoad

SpecBasic == InitBasic /\ [][NextBasic]_vars

\* the fuzzy list as persisted (empty when nothing is stored)
PersistedFuzzy == IF lsData = <<>> THEN <<>> ELSE lsData[1].fuzzyLocations

\* ------------------------------------------------------------------ claims
\* C1: no visit is recorded in a step taken while the consent flag is false,
\* whatever the mode and whatever was started earlier.
C1_NoCaptureWithoutConsent == [][~hasConsent => visits' = visits]_vars

\* C2: within one session at most one visit is recorded in total.
C2_OneVisitPerSession == visits <= 1

\* C3: the persisted blob never holds an ephemeral entry, and after a page
\* reload the ephemeral list is empty.
C3_EphemeralNeverPersisted ==
    [][/\ (lsData' = <<>> \/ lsData'[1].ephemeralVisitors = <<>>)
       /\ (ReloadPage => visitorData'.ephemeralVisitors = <<>>)]_vars

\* C4: changeMode('disabled') leaves the session flag cleared, and no step
\* taken while the mode is disabled records a visit, the completion of an
\* earlier fetch included.
C4_DisabledStopsCapture ==
    [][/\ (Set(changeMode(St, "disabled")) => ~sessionTracked')
       /\ (currentMode = "disabled" => visits' = visits)]_vars

\* C4 witness: a fetch completed while the mode was disabled (it set the
\* session flag) and nothing was recorded.
C4_Witness ==
    /\ currentMode = "disabled"
    /\ hasConsent
    /\ sessionTracked
    /\ pending = 0
    /\ visits = 0

\* C5: with consent, changeMode from disabled to an active mode clears the
\* session flag and suspends one more tracking call at the fetch; and a fetch
\* that resolves in an active mode records one more visit.
C5_LeavingDisabledRearms ==
    [][/\ \A m \in ActiveModes :
             (hasConsent /\ currentMode = "disabled" /\ Set(changeMode(St, m)))
                => (~sessionTracked' /\ pending' = pending + 1)
       /\ (currentMode \in ActiveModes /\ FetchResolves) => visits' = visits + 1]_vars

\* C5 witness: a visit was recorded, and tracking is armed again in an
\* active mode with a fetch in flight.
C5_Witness ==
    /\ hasConsent
    /\ currentMode \in ActiveModes
    /\ ~sessionTracked
    /\ pending = 1
    /\ visits = 1

\* C6: after rejectCookies the consent flag and the mode, in memory and as
\* persisted, are false and disabled.
C6_RejectForcesDisabled ==
    [][Set(rejectCookies(St)) =>
          /\ ~hasConsent'
          /\ currentMode' = "disabled"
          /\ lsConsent' = "false"
          /\ lsMode' = "disabled"]_vars

\* C6 witness: consent rejected after a visit had been recorded in an active mode.
C6_Witness ==
    /\ ~hasConsent
    /\ currentMode = "disabled"
    /\ lsConsent = "false"
    /\ lsMode = "disabled"
    /\ visits > 0

\* C11 as claimed: a confirmed clearAllData leaves no storage key of the
\* module with a value (data, mode, consent, session flag) and the store in
\* memory empty.
C11_ClearWipesEveryKey ==
    [][Set(clearAllData(St, TRUE)) =>
          /\ lsData' = <<>>
          /\ lsMode' = Missing
          /\ lsConsent' = Missing
          /\ ~sessionTracked'
          /\ visitorData' = EmptyData]_vars

\* C11 as amended: a confirmed clearAllData removes the data blob and the
\* session flag and empties the store in memory; the persisted mode and the
\* persisted consent are left as they were.
C11_ClearWipesData ==
    [][Set(clearAllData(St, TRUE)) =>
          /\ lsData' = <<>>
          /\ ~sessionTracked'
          /\ visitorData' = EmptyData
          /\ lsMode' = lsMode
          /\ lsConsent' = lsConsent]_vars

\* C11 witness: a fuzzy capture was saved on this page (its location is still
\* displayed) and the blob is gone again, with mode and consent still stored.
C11_Witness ==
    /\ dom.userLocation.kind = "fuzzy"
    /\ lsData = <<>>
    /\ visitorData = EmptyData
    /\ ~sessionTracked
    /\ lsMode = "fuzzy"
    /\ lsConsent = "true"

\* C12: right after a confirmed clearAllData getStats reports no visitor and
\* no country, the two counters on the page show 0 and the country list has
\* no item, in every mode.
C12_ClearResetsStats ==
    [][Set(clearAllData(St, TRUE)) =>
          /\ getStats(St)'.totalVisitors = 0
          /\ getStats(St)'.uniqueCountries = 0
          /\ dom'.totalVisitors = 0
          /\ dom'.uniqueCountries = 0
          /\ dom'.countryList.kind \in {"empty", "disabled"}
          /\ dom'.countryList.items = <<>>]_vars

\* C12 witness: in mode country, a capture of this page is still displayed,
\* and the counters show 0 and the list is empty.
C12_Witness ==
    /\ currentMode = "country"
    /\ dom.userLocation.kind = "country"
    /\ getStats(St).totalVisitors = 0
    /\ dom.totalVisitors = 0
    /\ dom.countryList.kind = "empty"

\* C13 as claimed: after a capture in any mode the persisted blob is the
\* serialization of the store in memory.
C13_EveryCaptureSaved ==
    [][visits' = visits + 1 => lsData' = << Stringify(visitorData') >>]_vars

\* C13 as amended: after a capture in mode country or fuzzy the persisted
\* blob is the serialization of the whole store in memory; a capture in mode
\* ephemeral writes nothing.
C13_StoredCaptureSaved ==
    [][visits' = visits + 1 =>
          IF currentMode \in {"country", "fuzzy"}
          THEN lsData' = << Stringify(visitorData') >>
          ELSE lsData' = lsData]_vars

\* C13 witness: a fuzzy capture answered without coordinates is in memory
\* with NaN and in the blob with null, and the blob is the serialization.
C13_Witness ==
    /\ Len(visitorData.fuzzyLocations) = 1
    /\ visitorData.fuzzyLocations[1].lat = NaN
    /\ lsData # <<>>
    /\ lsData[1].fuzzyLocations[1].lat = JsonNull
    /\ lsData[1] = Stringify(visitorData)

\* C14: when the fetch or response.json() rejects, the store in memory, the
\* persisted blob, the session flag and the count of recorded visits are
\* unchanged, and the call ends in its catch block, which displays 'Unable
\* to detect'.
C14_FailureRecordsNothing ==
    [][FetchRejects =>
          /\ visitorData' = visitorData
          /\ lsData' = lsData
          /\ sessionTracked' = sessionTracked
          /\ visits' = visits
          /\ pending' = pending - 1
          /\ dom'.userLocation.kind = "unable"]_vars

\* C14 witness: with consent, in an active mode, the only tracking call has
\* failed: nothing is recorded or stored and the session flag is not set.
C14_Witness ==
    /\ hasConsent
    /\ currentMode \in ActiveModes
    /\ dom.userLocation.kind = "unable"
    /\ pending = 0
    /\ visits = 0
    /\ visitorData = EmptyData
    /\ lsData = <<>>
    /\ ~sessionTracked

\* C15: the mode in memory is one of the four modes, and so is the persisted
\* mode once one is persisted.
C15_ModeIsValid ==
    /\ currentMode \in Modes
    /\ lsMode \in Modes \cup {Missing}

\* C16: init, called on the page or run by a page load, ends with the mode
\* equal to the persisted mode when that is one of the four modes, and with
\* the default mode otherwise.
C16_InitModeFromPreference ==
    [][(CallInit \/ ReloadPage) =>
          currentMode' = IF lsMode \in Modes THEN lsMode ELSE DEFAULT_MODE]_vars

\* C17: acceptCookies, clearAllData and the completion or failure of a fetch
\* leave the mode in memory and the persisted mode unchanged; a step that
\* changes either is changeMode, rejectCookies or init.
C17_ModeChangesOnlyOnSelection ==
    [][/\ (CallAcceptCookies \/ CallClearAllData \/ FetchResolves \/ FetchRejects)
             => (currentMode' = currentMode /\ lsMode' = lsMode)
       /\ (currentMode' # currentMode \/ lsMode' # lsMode)
             => (CallChangeMode \/ CallRejectCookies \/ CallInit \/ ReloadPage)]_vars

\* C17 witness: the selected mode ephemeral is still the mode, in memory and
\* as persisted, after consent was given and the capture completed.
C17_Witness ==
    /\ currentMode = "ephemeral"
    /\ lsMode = "ephemeral"
    /\ hasConsent
    /\ sessionTracked
    /\ pending = 0
    /\ Len(visitorData.ephemeralVisitors) = 1
    /\ dom.userLocation.kind = "ephemeral"

\* C18: every latitude and longitude of a fuzzy entry, in memory and as
\* persisted, is a number of tenths of a degree (NaN and null are not).
C18_StoredCoordinatesRounded ==
    /\ \A i \in DOMAIN visitorData.fuzzyLocations :
          /\ visitorData.fuzzyLocations[i].lat.t = "num"
          /\ visitorData.fuzzyLocations[i].lon.t = "num"
    /\ \A i \in DOMAIN PersistedFuzzy :
          /\ PersistedFuzzy[i].lat.t = "num"
          /\ PersistedFuzzy[i].lon.t = "num"

\* C19: in the country map, in memory and as persisted, every aggregate has
\* a count of at least 1 and a code equal to the key it is stored under, and
\* no two aggregates have the same code.
C19_CountryAggregates ==
    \A countries \in {visitorData.countries,
                       IF lsData = <<>> THEN <<>> ELSE lsData[1].countries} :
        /\ \A i \in DOMAIN countries :
              /\ countries[i].count >= 1
              /\ countries[i].code = countries[i].key
        /\ \A i, j \in DOMAIN countries :
              countries[i].code = countries[j].code => i = j

\* C19 witness: two captures from the same country are one aggregate of
\* count 2 under its code, in memory and in the blob.
C19_Witness ==
    /\ lsData # <<>>
    /\ lsData[1].countries = visitorData.countries
    /\ Len(visitorData.countries) = 1
    /\ visitorData.countries[1].key = "US"
    /\ visitorData.countries[1].count = 2

\* C20: a fetch that resolves in mode country adds 1 to the count of one
\* aggregate (a new one starts at 1) and leaves the two lists unchanged; in
\* mode fuzzy it pushes one entry (coordinates as rounded, country, time)
\* onto the fuzzy list, adds 1 to the count of that entry's country and
\* leaves the ephemeral list unchanged; in mode ephemeral it pushes one
\* entry onto the ephemeral list and leaves the country map and the fuzzy
\* list unchanged; in any other mode the store is unchanged.
C20_CaptureChangesOwnFields ==
    [][FetchResolves =>
          LET old == visitorData
              new == visitorData'
              OneCounter ==
                  /\ SumCounts(new.countries) = SumCounts(old.countries) + 1
                  /\ Len(new.countries) \in {Len(old.countries), Len(old.countries) + 1}
                  /\ \A i \in DOMAIN old.countries :
                        /\ new.countries[i].key = old.countries[i].key
                        /\ new.countries[i].code = old.countries[i].code
                        /\ new.countries[i].name = old.countries[i].name
                        /\ new.countries[i].count >= old.countries[i].count
                  /\ Len(new.countries) = Len(old.countries) + 1
                        => new.countries[Len(new.countries)].count = 1
              FuzzyEntry(data) ==
                  [lat |-> RoundFuzzy(parseFloat(data.latitude)),
                   lon |-> RoundFuzzy(parseFloat(data.longitude)),
                   country |-> CountryCodeOf(data), timestamp |-> now']
              CountOf(countries, code) ==
                  IF HasCountry(countries, code)
                  THEN countries[IndexOfCountry(countries, code)].count ELSE 0
          IN CASE currentMode = "country" ->
                    /\ OneCounter
                    /\ new.fuzzyLocations = old.fuzzyLocations
                    /\ new.ephemeralVisitors = old.ephemeralVisitors
               [] currentMode = "fuzzy" ->
                    /\ OneCounter
                    /\ \E data \in Responses :
                          /\ new.fuzzyLocations =
                                SliceLast(Append(old.fuzzyLocations, FuzzyEntry(data)),
                                          FuzzyLimit)
                          /\ CountOf(new.countries, CountryCodeOf(data)) =
                                CountOf(old.countries, CountryCodeOf(data)) + 1
                    /\ new.ephemeralVisitors = old.ephemeralVisitors
               [] currentMode = "ephemeral" ->
                    /\ Len(new.ephemeralVisitors) = Len(old.ephemeralVisitors) + 1
                    /\ SubSeq(new.ephemeralVisitors, 1, Len(old.ephemeralVisitors))
                          = old.ephemeralVisitors
                    /\ new.countries = old.countries
                    /\ new.fuzzyLocations = old.fuzzyLocations
               [] OTHER -> new = old]_vars

\* C20 witness: after one fuzzy and one ephemeral capture the store holds one
\* fuzzy entry, one ephemeral entry and a single count of 1.
C20_Witness ==
    /\ Len(visitorData.fuzzyLocations) = 1
    /\ Len(visitorData.ephemeralVisitors) = 1
    /\ SumCounts(visitorData.countries) = 1
    /\ visits = 2

\* ------------------------------------------------ two tabs of one browser
\* in-flight fetches of one tab, and visits recorded by the two tabs together
TabPending == 1
TabVisits == 2

\* The second tab as the argument of a handler: its own module state, the
\* localStorage and the clock it shares with the first tab.
St2 ==
    [currentMode |-> tab2.currentMode, visitorData |-> tab2.visitorData,
     hasConsent |-> tab2.hasConsent, lsMode |-> lsMode, lsConsent |-> lsConsent,
     lsData |-> lsData, sessionTracked |-> tab2.sessionTracked,
     pending |-> tab2.pending, now |-> now, visits |-> visits, dom |-> tab2.dom]

TabBounded(t) ==
    /\ t.pending <= TabPending
    /\ t.visits <= TabVisits

\* the result of a handler that ran in the second tab
Set2(t) ==
    /\ tab2' = [currentMode |-> t.currentMode, visitorData |-> t.visitorData,
                hasConsent |-> t.hasConsent, sessionTracked |-> t.sessionTracked,
                pending |-> t.pending, dom |-> t.dom]
    /\ lsMode' = t.lsMode
    /\ lsConsent' = t.lsConsent
    /\ lsData' = t.lsData
    /\ now' = t.now
    /\ visits' = t.visits
    /\ UNCHANGED <<currentMode, visitorData, hasConsent, sessionTracked, pending, dom,
                   basicVars, loadVars, sectionVars, serverVars, gameVars, flightVars>>

\* a browser whose user gave consent in an earlier session; no page is open
InitTabs ==
    /\ currentMode = DEFAULT_MODE
    /\ visitorData = EmptyData
    /\ hasConsent = FALSE
    /\ lsMode = Missing
    /\ lsConsent = "true"
    /\ lsData = <<>>
    /\ sessionTracked = FALSE
    /\ pending = 0
    /\ now = 0
    /\ visits = 0
    /\ dom = InitialDom
    /\ tab2 = Tab2Closed
    /\ InitBasicEmpty
    /\ InitLoadEmpty
    /\ InitSectionsClosed
    /\ InitServerIdle
    /\ InitTitleScreen
    /\ InitNoFlight

Tab1Init ==
    /\ TabBounded(init(St))
    /\ Set(init(St))

Tab2Init ==
    /\ TabBounded(init(St2))
    /\ Set2(init(St2))

\* the user of a tab selects one of the two modes that save
Tab1ChangeMode ==
    \E newMode \in {"country", "fuzzy"} :
        /\ TabBounded(changeMode(St, newMode))
        /\ Set(changeMode(St, newMode))

Tab2ChangeMode ==
    \E newMode \in {"country", "fuzzy"} :
        /\ TabBounded(changeMode(St2, newMode))
        /\ Set2(changeMode(St2, newMode))

Tab1FetchResolves ==
    /\ pending > 0
    /\ \E data \in Responses :
          /\ TabBounded(trackResumed(St, data, now))
          /\ Set(trackResumed(St, data, now))

Tab2FetchResolves ==
    /\ tab2.pending > 0
    /\ \E data \in Responses :
          /\ TabBounded(trackResumed(St2, data, now))
          /\ Set2(trackResumed(St2, data, now))

NextTabs ==
    \/ Tab1Init
    \/ Tab2Init
    \/ Tab1ChangeMode
    \/ Tab2ChangeMode
    \/ Tab1FetchResolves
    \/ Tab2FetchResolves

SpecTabs == InitTabs /\ [][NextTabs]_vars

\* C22: a capture of either tab leaves the persisted blob equal to the
\* serialization of that tab's store, with one more counted visit than that
\* tab held before, whatever the other tab had saved meanwhile.
C22_LastWriteWins ==
    [][/\ Tab1FetchResolves =>
             /\ lsData' = << Stringify(visitorData') >>
             /\ SumCounts(lsData'[1].countries) = SumCounts(visitorData.countries) + 1
       /\ Tab2FetchResolves =>
             /\ lsData' = << Stringify(tab2'.visitorData) >>
             /\ SumCounts(lsData'[1].countries)
                   = SumCounts(tab2.visitorData.countries) + 1]_vars

\* C22 witness: both tabs loaded the empty store and each recorded a visit:
\* two visits were recorded, each tab holds one, and so does the blob, which
\* is the store of the first tab.
C22_Witness ==
    /\ visits = 2
    /\ SumCounts(visitorData.countries) = 1
    /\ SumCounts(tab2.visitorData.countries) = 1
    /\ lsData = << Stringify(visitorData) >>
    /\ SumCounts(lsData[1].countries) = 1
    /\ visitorData.countries # tab2.visitorData.countries

\* ------------------------------------ rendering a store of earlier sessions
\* countries counted in earlier sessions, and the largest count of one of them
RenderCountries == 6
RenderMaxCount == 2
\* in-flight fetches and visits recorded in the session that renders
RenderPending == 1
RenderVisits == 1

\* the country codes of the earlier visits, in the order of their first visit
RenderCodes == <<"US", "FR", "DE", "JP", "BR", "IN", "CA", "MX">>

\* The store after earlier country-mode sessions counted n countries: the
\* i-th country inserted has 1 + ((i + k) % RenderMaxCount) visits.
CountedVisits(n, k) ==
    [countries |-> [i \in 1..n |->
                       [key |-> RenderCodes[i], code |-> RenderCodes[i],
                        name |-> CountryNameOf(RenderCodes[i]),
                        count |-> 1 + ((i + k) % RenderMaxCount)]],
     fuzzyLocations |-> <<>>,
     ephemeralVisitors |-> <<>>]

RenderBounded(t) ==
    /\ t.pending <= RenderPending
    /\ t.visits <= RenderVisits

\* A new session of a browser whose user gave consent and was counted in
\* country mode before; the page is built, init has not run yet.
InitRender ==
    /\ currentMode = DEFAULT_MODE
    /\ visitorData = EmptyData
    /\ hasConsent = FALSE
    /\ lsMode = Missing
    /\ lsConsent = "true"
    /\ \E n \in 0..RenderCountries, k \in 0..(RenderMaxCount - 1) :
          lsData = IF n = 0 THEN <<>> ELSE << Stringify(CountedVisits(n, k)) >>
    /\ sessionTracked = FALSE
    /\ pending = 0
    /\ now = 0
    /\ visits = 0
    /\ dom = InitialDom
    /\ tab2 = Tab2Closed
    /\ InitBasicEmpty
    /\ InitLoadEmpty
    /\ InitSectionsClosed
    /\ InitServerIdle
    /\ InitTitleScreen
    /\ InitNoFlight

RenderInit ==
    /\ RenderBounded(init(St))
    /\ Set(init(St))

RenderChangeMode ==
    \E newMode \in ModeArgs :
        /\ RenderBounded(changeMode(St, newMode))
        /\ Set(changeMode(St, newMode))

RenderFetchResolves ==
    /\ pending > 0
    /\ \E data \in Responses :
          /\ RenderBounded(trackResumed(St, data, now))
          /\ Set(trackResumed(St, data, now))

NextRender ==
    \/ RenderInit
    \/ RenderChangeMode
    \/ RenderFetchResolves

SpecRender == InitRender /\ [][NextRender]_vars

\* C27: rendering writes the page and nothing else: the results of updateUI,
\* renderCountryList and renderMap differ from the state they were applied to
\* in the page only, so the store with the order and counts of its countries,
\* the mode, the consent flag, the persisted keys and the session flag are
\* those of before; getStats is a value computed from the state. So the
\* handlers that only load and render leave the store as it was loaded: init
\* leaves the store, the mode and the consent flag that loadPreferences and
\* loadVisitorData produced and the persisted keys, and changeMode to
\* 'disabled' leaves the store, the blob and the consent.
C27_RenderingIsPure ==
    [][/\ \A t \in {updateUI(St), renderCountryList(St), renderMap(St),
                     renderMap(updateUI(St))} :
             [t EXCEPT !.dom = dom] = St
       /\ getStats(St) = [totalVisitors |-> SumCounts(visitorData.countries),
                          uniqueCountries |-> Len(visitorData.countries),
                          mode |-> currentMode, hasConsent |-> hasConsent]
       /\ RenderInit =>
             LET loaded == loadVisitorData(loadPreferences(St))
             IN /\ visitorData' = loaded.visitorData
                /\ currentMode' = loaded.currentMode
                /\ hasConsent' = loaded.hasConsent
                /\ <<lsMode, lsConsent, lsData, sessionTracked>>'
                      = <<lsMode, lsConsent, lsData, sessionTracked>>
       /\ (RenderChangeMode /\ currentMode' = "disabled") =>
             /\ visitorData' = visitorData
             /\ <<hasConsent, lsConsent, lsData>>' = <<hasConsent, lsConsent, lsData>>]_vars

\* C27 witness: the page lists the countries in another order than the store
\* holds them, and the store is still the one that was loaded.
C27_Witness ==
    /\ dom.worldMap.kind = "map"
    /\ dom.countryList.kind = "items"
    /\ Len(visitorData.countries) >= 2
    /\ dom.worldMap.rows[1].name # visitorData.countries[1].name
    /\ dom.countryList.items[1] # visitorData.countries[1]
    /\ lsData = << Stringify(visitorData) >>
    /\ visitorData.countries[1].key = RenderCodes[1]

\* C28: the rows of the textual map are the five countries with the largest
\* counts, or all countries when there are fewer (no row stands for the 'no
\* visitors' text): counts never increase along the rows, of two rows with
\* the same count the country inserted first comes first, and a country
\* without a row has no larger count than any row and was inserted later than
\* every row of its count. A map on the page shows these rows.
C28_TopFive ==
    LET countries == visitorData.countries
        rows == getMapVisualRepresentation(St)
        Pos(r) == CHOOSE i \in DOMAIN countries : countries[i].name = rows[r].name
        Listed == { Pos(r) : r \in DOMAIN rows }
    IN /\ Len(rows) = Min(5, Len(countries))
       /\ (countries = <<>>) <=> (rows = <<>>)
       /\ \A r \in DOMAIN rows :
             /\ \E i \in DOMAIN countries : countries[i].name = rows[r].name
             /\ rows[r].count = countries[Pos(r)].count
       /\ Cardinality(Listed) = Len(rows)
       /\ \A r, q \in DOMAIN rows :
             r < q => \/ rows[r].count > rows[q].count
                      \/ rows[r].count = rows[q].count /\ Pos(r) < Pos(q)
       /\ \A i \in DOMAIN countries \ Listed :
             \A r \in DOMAIN rows :
                 \/ rows[r].count > countries[i].count
                 \/ rows[r].count = countries[i].count /\ Pos(r) < i
       /\ dom.worldMap.kind = "map" => dom.worldMap.rows = rows

\* C28 witness: six countries with counts 1 and 2 alternating; the map shows
\* the three countries counted twice in their order of insertion, then the
\* first two of the three counted once.
C28_Witness ==
    /\ dom.worldMap.kind = "map"
    /\ [i \in 1..Len(visitorData.countries) |-> visitorData.countries[i].count]
          = <<1, 2, 1, 2, 1, 2>>
    /\ [r \in 1..Len(dom.worldMap.rows) |-> dom.worldMap.rows[r].name]
          = <<"France", "Japan", "India", "United States", "Germany">>

\* ------------------------------------------- the sections of the portfolio
\* how far the user scrolls the window, in screens
MaxScroll == 2

\* The elements of class 'content-section': the three that switchSection
\* looks up by id.
ContentSections == {"statsSection", "missionsSection", "contactSection"}

\* The elements of class 'taskbar-item' in document order, by the section
\* each of them opens.
TaskbarItems == <<"stats", "missions", "contact">>

\* the arguments switchSection is called with
SectionArgs == {"stats", "missions", "contact", "other"}

\* the page as the argument of a handler
Page ==
    [secActive |-> secActive, tbActive |-> tbActive,
     lastSection |-> lastSection, scrollTop |-> scrollTop]

\* switchSection without the two loops that remove 'active'
switchSection_KeepsOthers(p, section) ==
    LET shown ==
            CASE section = "stats" ->
                   [p EXCEPT !.secActive = @ \cup {"statsSection"},
                             !.tbActive = @ \cup {1}]
              [] section = "missions" ->
                   [p EXCEPT !.secActive = @ \cup {"missionsSection"},
                             !.tbActive = @ \cup {2}]
              [] section = "contact" ->
                   [p EXCEPT !.secActive = @ \cup {"contactSection"},
                             !.tbActive = @ \cup {3}]
              [] OTHER -> p
    IN [shown EXCEPT !.scrollTop = 0, !.lastSection = section]

switchSection(p, section) ==
    LET hidden == [p EXCEPT !.secActive = @ \ ContentSections,
                            !.tbActive = @ \ DOMAIN TaskbarItems]
        shown ==
            CASE section = "stats" ->
                   [hidden EXCEPT !.secActive = @ \cup {"statsSection"},
                                  !.tbActive = @ \cup {1}]
              [] section = "missions" ->
                   [hidden EXCEPT !.secActive = @ \cup {"missionsSection"},
                                  !.tbActive = @ \cup {2}]
              [] section = "contact" ->
                   [hidden EXCEPT !.secActive = @ \cup {"contactSection"},
                                  !.tbActive = @ \cup {3}]
              [] OTHER -> hidden
    IN [shown EXCEPT !.scrollTop = 0, !.lastSection = section]

SetPage(p) ==
    /\ secActive' = p.secActive
    /\ tbActive' = p.tbActive
    /\ lastSection' = p.lastSection
    /\ scrollTop' = p.scrollTop
    /\ UNCHANGED <<modeVars, basicVars, loadVars, serverVars, gameVars, flightVars>>

\* The page as served, at the top: any of the sections and taskbar items may
\* carry 'active' in the markup; switchSection has not been called.
InitSections ==
    /\ secActive \in SUBSET ContentSections
    /\ tbActive \in SUBSET DOMAIN TaskbarItems
    /\ lastSection = Missing
    /\ scrollTop = 0
    /\ InitVisitorMap
    /\ InitBasicEmpty
    /\ InitLoadEmpty
    /\ InitServerIdle
    /\ InitTitleScreen
    /\ InitNoFlight

CallSwitchSection ==
    \E section \in SectionArgs : SetPage(switchSection(Page, section))

\* the user scrolls the window
UserScrolls ==
    \E y \in 0..MaxScroll :
        /\ y # scrollTop
        /\ SetPage([Page EXCEPT !.scrollTop = y])

NextSections ==
    \/ CallSwitchSection
    \/ UserScrolls

SpecSections == InitSections /\ [][NextSections]_vars

\* C30: once switchSection has been called, at most one content section and
\* at most one taskbar item are active; after 'stats', 'missions' or 'contact'
\* the active section is the one of that name and the active taskbar item is
\* the one that opens it, and after any other argument nothing is active.
C30_OneScreen ==
    lastSection # Missing =>
        /\ Cardinality(secActive) <= 1
        /\ Cardinality(tbActive) <= 1
        /\ lastSection = "stats" => secActive = {"statsSection"}
        /\ lastSection = "missions" => secActive = {"missionsSection"}
        /\ lastSection = "contact" => secActive = {"contactSection"}
        /\ lastSection \in {"stats", "missions", "contact"} =>
              /\ tbActive # {}
              /\ \A i \in tbActive : TaskbarItems[i] = lastSection
        /\ lastSection \notin {"stats", "missions", "contact"} =>
              secActive = {} /\ tbActive = {}

\* C30 witness: switchSection('missions') was called and the user scrolled
\* down afterwards: the missions section and the second taskbar item are
\* the active ones.
C30_Witness ==
    /\ lastSection = "missions"
    /\ secActive = {"missionsSection"}
    /\ tbActive = {2}
    /\ scrollTop = MaxScroll

\* --------------------------------------- a mode change during the fetch
\* in-flight fetches at one time, and visits recorded in the session
FlightPending == 2
FlightVisits == 2

FlightBounded(t) ==
    /\ t.pending <= FlightPending
    /\ t.visits <= FlightVisits

\* The suspended calls after a handler ran: a call the handler started is
\* suspended at its fetch, and the mode it passed its guard in is the mode
\* the handler leaves.
Started(t) ==
    IF t.pending > pending THEN Append(inflight, t.currentMode) ELSE inflight

\* the suspended calls without the i-th
Resumed(i) == SubSeq(inflight, 1, i - 1) \o SubSeq(inflight, i + 1, Len(inflight))

FlightInit ==
    /\ FlightBounded(init(St))
    /\ SetModule(init(St))
    /\ inflight' = Started(init(St))

FlightChangeMode ==
    \E newMode \in Modes :
        /\ FlightBounded(changeMode(St, newMode))
        /\ SetModule(changeMode(St, newMode))
        /\ inflight' = Started(changeMode(St, newMode))

\* the fetch of one of the suspended calls resolves, in any order
FlightResolves ==
    \E i \in DOMAIN inflight, data \in Responses :
        /\ pending > 0
        /\ FlightBounded(trackResumed(St, data, now))
        /\ SetModule(trackResumed(St, data, now))
        /\ inflight' = Resumed(i)

FlightRejects ==
    \E i \in DOMAIN inflight :
        /\ pending > 0
        /\ SetModule(trackFailed(St))
        /\ inflight' = Resumed(i)

NextFlight ==
    \/ FlightInit
    \/ FlightChangeMode
    \/ FlightResolves
    \/ FlightRejects

\* a browser whose user gave consent in an earlier session
SpecFlight == InitTabs /\ [][NextFlight]_vars

\* what a step recorded is the capture of mode m
CapturedAs(m) ==
    CASE m = "country" ->
           /\ SumCounts(visitorData'.countries) = SumCounts(visitorData.countries) + 1
           /\ visitorData'.fuzzyLocations = visitorData.fuzzyLocations
           /\ visitorData'.ephemeralVisitors = visitorData.ephemeralVisitors
      [] m = "fuzzy" ->
           /\ SumCounts(visitorData'.countries) = SumCounts(visitorData.countries) + 1
           /\ visitorData'.fuzzyLocations # visitorData.fuzzyLocations
           /\ visitorData'.ephemeralVisitors = visitorData.ephemeralVisitors
      [] m = "ephemeral" ->
           /\ visitorData'.countries = visitorData.countries
           /\ visitorData'.fuzzyLocations = visitorData.fuzzyLocations
           /\ visitorData'.ephemeralVisitors # visitorData.ephemeralVisitors
      [] OTHER -> visitorData' = visitorData

\* C32: when the fetch of a suspended call resolves, what is recorded is the
\* capture of the mode the call started in, whatever the mode is by then.
C32_ModeAtStart ==
    [][\A i \in DOMAIN inflight, data \in Responses :
          (/\ pending > 0
           /\ SetModule(trackResumed(St, data, now))
           /\ inflight' = Resumed(i)) => CapturedAs(inflight[i])]_vars

\* C33: a completed tracking request that leaves the session flag set has
\* recorded a visit: a country count went up or a fuzzy or an ephemeral
\* entry was appended.
C33_FlagMeansRecorded ==
    [][(FlightResolves /\ sessionTracked') =>
          \/ SumCounts(visitorData'.countries) > SumCounts(visitorData.countries)
          \/ Len(visitorData'.fuzzyLocations) > Len(visitorData.fuzzyLocations)
          \/ Len(visitorData'.ephemeralVisitors) > Len(visitorData.ephemeralVisitors)]_vars

\* C34: every step of the module (init, a public operation, the end of a
\* fetch, a page load) leaves the preferences in memory equal to the
\* persisted ones: a persisted mode is the mode in memory, and the consent
\* flag is true exactly when the persisted consent is 'true'.
C34_PreferencesAgree ==
    [][/\ lsMode' # Missing => lsMode' = currentMode'
       /\ hasConsent' <=> (lsConsent' = "true")]_vars

\* C36: acceptCookies sets the consent flag in memory and the persisted one,
\* leaves the mode and records no visit itself; it starts one tracking
\* request when the mode is one of the three active modes and the session
\* flag is not set, and none when the mode is disabled. While the mode is
\* disabled no visit is recorded, and only changeMode ends that.
C36_AcceptKeepsMode ==
    [][/\ CallAcceptCookies =>
             /\ hasConsent' /\ lsConsent' = "true"
             /\ currentMode' = currentMode /\ lsMode' = lsMode
             /\ visits' = visits /\ visitorData' = visitorData /\ lsData' = lsData
             /\ (currentMode \in ActiveModes /\ ~sessionTracked) => pending' = pending + 1
             /\ (currentMode = "disabled" \/ sessionTracked) => pending' = pending
       /\ currentMode = "disabled" =>
             /\ visits' = visits
             /\ SumCounts(visitorData'.countries) <= SumCounts(visitorData.countries)
             /\ Len(visitorData'.fuzzyLocations) <= Len(visitorData.fuzzyLocations)
             /\ Len(visitorData'.ephemeralVisitors) <= Len(visitorData.ephemeralVisitors)
             /\ currentMode' # "disabled" => CallChangeMode]_vars

\* C36 witness: consent was rejected and then accepted: the consent is
\* stored as given, the mode is disabled in memory and as persisted, no
\* request is in flight and no visit was recorded.
C36_Witness ==
    /\ hasConsent
    /\ lsConsent = "true"
    /\ currentMode = "disabled"
    /\ lsMode = "disabled"
    /\ ~dom.cookieConsent
    /\ dom.worldMap.kind = "disabled"
    /\ pending = 0
    /\ visits = 0
    /\ ~sessionTracked

\* ------------------------------------------------- the loading sequence
messages ==
    <<"WAKING UP...", "LOADING CHARACTER EGO...", "OPTIMIZING CV...",
      "PRETENDING TO LOAD SOMETHING...", "MAKING EVERYTHING LOOK COOL...", "READY!">>

\* 100 / (messages.length - 1): 20, without a remainder
nextThreshold == 100 \div (Len(messages) - 1)

\* Math.floor(Math.random() * 10) + 5
Increments == 5..14

\* The title screen as the argument of a handler.
Game == [seqs |-> gmSeqs, page |-> gmPage]

\* startGame up to the return of setInterval: the locals of the call, the
\* stage its timers are in, and as history its ticks and the indexes of the
\* messages it has shown
startGame(g) ==
    [g EXCEPT !.page.loadingActive = TRUE,
              !.seqs = Append(@, [progress |-> 0, nextMessageIndex |-> 0,
                                  stage |-> "interval", ticks |-> 0,
                                  shown |-> <<>>])]

\* the callback of setInterval without the cap of progress at 100
fakeLoading_NoCap(g, i, k) ==
    LET c == g.seqs[i]
        progress == c.progress + k
        show == /\ progress >= nextThreshold * c.nextMessageIndex
                /\ c.nextMessageIndex < Len(messages)
    IN [g EXCEPT !.seqs[i] =
                     [c EXCEPT !.progress = progress,
                               !.nextMessageIndex = IF show THEN @ + 1 ELSE @,
                               !.stage = IF progress >= 100 THEN "wait500" ELSE @,
                               !.ticks = @ + 1,
                               !.shown = IF show THEN Append(@, c.nextMessageIndex)
                                         ELSE @],
                 !.page.loadingFill = progress,
                 !.page.loadingPercent = progress,
                 !.page.loadingText = IF show THEN messages[c.nextMessageIndex + 1]
                                      ELSE @]

\* the callback of setInterval with the message of index n due at n + 1 steps
fakeLoading_LateMessages(g, i, k) ==
    LET c == g.seqs[i]
        progress == Min(c.progress + k, 100)
        show == /\ progress >= nextThreshold * (c.nextMessageIndex + 1)
                /\ c.nextMessageIndex < Len(messages)
    IN [g EXCEPT !.seqs[i] =
                     [c EXCEPT !.progress = progress,
                               !.nextMessageIndex = IF show THEN @ + 1 ELSE @,
                               !.stage = IF progress >= 100 THEN "wait500" ELSE @,
                               !.ticks = @ + 1,
                               !.shown = IF show THEN Append(@, c.nextMessageIndex)
                                         ELSE @],
                 !.page.loadingFill = progress,
                 !.page.loadingPercent = progress,
                 !.page.loadingText = IF show THEN messages[c.nextMessageIndex + 1]
                                      ELSE @]

\* The callback of setInterval for the i-th call of startGame; k is the
\* random increment. At 100 the interval is cleared and the first timeout set.
fakeLoading(g, i, k) ==
    LET c == g.seqs[i]
        progress == Min(c.progress + k, 100)
        show == /\ progress >= nextThreshold * c.nextMessageIndex
                /\ c.nextMessageIndex < Len(messages)
    IN [g EXCEPT !.seqs[i] =
                     [c EXCEPT !.progress = progress,
                               !.nextMessageIndex = IF show THEN @ + 1 ELSE @,
                               !.stage = IF progress >= 100 THEN "wait500" ELSE @,
                               !.ticks = @ + 1,
                               !.shown = IF show THEN Append(@, c.nextMessageIndex)
                                         ELSE @],
                 !.page.loadingFill = progress,
                 !.page.loadingPercent = progress,
                 !.page.loadingText = IF show THEN messages[c.nextMessageIndex + 1]
                                      ELSE @]

\* the three nested timeouts of the i-th call
timeout500(g, i) ==
    [g EXCEPT !.seqs[i].stage = "wait400",
              !.page.loadingActive = FALSE,
              !.page.titleOpacity = 0]

timeout400(g, i) ==
    [g EXCEPT !.seqs[i].stage = "wait50",
              !.page.titleDisplay = "none",
              !.page.menuActive = TRUE,
              !.page.menuOpacity = 0]

timeout50(g, i) ==
    [g EXCEPT !.seqs[i].stage = "done",
              !.page.menuOpacity = 1]

\* the keydown listener
keydown(g, key) ==
    IF key = "Enter" /\ g.page.titleDisplay # "none" THEN startGame(g) ELSE g

GmSet(g) ==
    /\ gmSeqs' = g.seqs
    /\ gmPage' = g.page
    /\ UNCHANGED <<modeVars, basicVars, loadVars, sectionVars, serverVars, flightVars>>

\* the visitor starts the game, once
GameStart ==
    /\ gmSeqs = <<>>
    /\ GmSet(startGame(Game))

GameTick ==
    \E i \in DOMAIN gmSeqs, k \in Increments :
        /\ gmSeqs[i].stage = "interval"
        /\ GmSet(fakeLoading(Game, i, k))

GameTimeout500 ==
    \E i \in DOMAIN gmSeqs :
        /\ gmSeqs[i].stage = "wait500"
        /\ GmSet(timeout500(Game, i))

GameTimeout400 ==
    \E i \in DOMAIN gmSeqs :
        /\ gmSeqs[i].stage = "wait400"
        /\ GmSet(timeout400(Game, i))

GameTimeout50 ==
    \E i \in DOMAIN gmSeqs :
        /\ gmSeqs[i].stage = "wait50"
        /\ GmSet(timeout50(Game, i))

NextGame ==
    \/ GameStart
    \/ GameTick
    \/ GameTimeout500
    \/ GameTimeout400
    \/ GameTimeout50

SpecGame == Init /\ [][NextGame]_vars

\* the timers of the browser fire: an interval that is set ticks, a timeout
\* that is set runs
SpecGameLive ==
    /\ Init
    /\ [][NextGame]_vars
    /\ WF_vars(GameTick)
    /\ WF_vars(GameTimeout500)
    /\ WF_vars(GameTimeout400)
    /\ WF_vars(GameTimeout50)

\* the step is a tick of the i-th loading sequence
Ticked(i) == gmSeqs'[i].ticks = gmSeqs[i].ticks + 1

\* C37 as stated: every tick raises progress by at least 5 and at most 14 and
\* never beyond 100; 100 is reached within 20 ticks, the interval is then
\* cleared and the sequence ticks no more; every sequence gets there.
C37_EveryTickAtLeastFive ==
    /\ [][\A i \in DOMAIN gmSeqs :
             Ticked(i) =>
                 /\ gmSeqs'[i].progress - gmSeqs[i].progress \in 5..14
                 /\ gmSeqs'[i].progress <= 100
                 /\ gmSeqs'[i].ticks <= 20
                 /\ gmSeqs[i].stage = "interval" /\ gmSeqs[i].progress < 100
                 /\ (gmSeqs'[i].progress = 100) <=> (gmSeqs'[i].stage # "interval")]_vars
    /\ (gmSeqs # <<>>) ~> (gmSeqs # <<>> /\ gmSeqs[1].stage # "interval")

\* C37: every tick adds an increment of 5 to 14 to progress and cuts the
\* result to 100, so the last tick may raise progress by less than 5; 100 is
\* reached within 20 ticks, the interval is cleared on that tick and the
\* sequence ticks no more; every sequence that was started gets there.
C37_LoadingFinishes ==
    /\ [][\A i \in DOMAIN gmSeqs :
             Ticked(i) =>
                 /\ \E k \in 5..14 :
                       gmSeqs'[i].progress = Min(gmSeqs[i].progress + k, 100)
                 /\ gmSeqs'[i].progress > gmSeqs[i].progress
                 /\ gmSeqs'[i].ticks <= 20
                 /\ gmSeqs[i].stage = "interval" /\ gmSeqs[i].progress < 100
                 /\ (gmSeqs'[i].progress = 100) <=> (gmSeqs'[i].stage # "interval")]_vars
    /\ (gmSeqs # <<>>) ~>
          (gmSeqs # <<>> /\ gmSeqs[1].progress = 100 /\ gmSeqs[1].stage # "interval")

\* C37 witness: the slowest sequence: nineteen ticks of 5 and the twentieth
\* tick reaching 100; the interval is cleared and the timeouts have run.
C37_Witness ==
    /\ Len(gmSeqs) = 1
    /\ gmSeqs[1].ticks = 20
    /\ gmSeqs[1].progress = 100
    /\ gmSeqs[1].stage = "done"
    /\ gmPage.titleDisplay = "none"

\* C38: in one loading sequence the messages are shown in their listed order,
\* each at most once and at most one on a tick, the text on the screen is the
\* message just shown, nothing is shown between ticks, and 'READY!' is shown
\* on exactly the tick on which progress reaches 100, whatever the increments.
C38_MessagesInOrder ==
    [][\A i \in DOMAIN gmSeqs :
          LET c == gmSeqs[i]
              d == gmSeqs'[i]
          IN /\ d.shown = [j \in 1..Len(d.shown) |-> j - 1]
             /\ Len(d.shown) <= Len(messages)
             /\ d.nextMessageIndex = Len(d.shown)
             /\ ~Ticked(i) => d.shown = c.shown
             /\ Ticked(i) =>
                   /\ \/ d.shown = c.shown /\ gmPage'.loadingText = gmPage.loadingText
                      \/ /\ d.shown = Append(c.shown, Len(c.shown))
                         /\ gmPage'.loadingText = messages[Len(d.shown)]
                   /\ (d.progress = 100) <=>
                         /\ d.shown # c.shown
                         /\ messages[Len(d.shown)] = "READY!"]_vars

\* C38 witness: a sequence of eight ticks, one of them without a message, has
\* shown the six messages and 'READY!' is on the screen.
C38_Witness ==
    /\ Len(gmSeqs) = 1
    /\ gmSeqs[1].ticks = 8
    /\ gmSeqs[1].progress = 100
    /\ gmSeqs[1].shown = <<0, 1, 2, 3, 4, 5>>
    /\ gmPage.loadingText = "READY!"

\* ------------------------------------------- Enter pressed more than once
\* calls of startGame explored
KeyStarts == 2

\* keys the visitor presses
Keys == {"Enter", "Escape"}

\* increments drawn while several sequences run
KeyIncrements == {14}

\* a key goes down while the page is open
Keydown ==
    \E key \in Keys :
        /\ Len(gmSeqs) < KeyStarts
        /\ GmSet(keydown(Game, key))

KeysTick ==
    \E i \in DOMAIN gmSeqs, k \in KeyIncrements :
        /\ gmSeqs[i].stage = "interval"
        /\ GmSet(fakeLoading(Game, i, k))

NextKeys ==
    \/ Keydown
    \/ KeysTick
    \/ GameTimeout500
    \/ GameTimeout400
    \/ GameTimeout50

SpecKeys == Init /\ [][NextKeys]_vars

\* C39: a loading interval is started only when no earlier one is running
\* and, if there was an earlier one, after the title screen has been hidden.
C39_OneLoadingSequence ==
    [][Len(gmSeqs') > Len(gmSeqs) =>
          /\ \A i \in DOMAIN gmSeqs : gmSeqs[i].stage # "interval"
          /\ gmSeqs # <<>> => gmPage.titleDisplay = "none"]_vars

\* ------------------------------------- the serverless geolocation function
\* requests the function receives
SrvRequests == 2

\* A request: its method, whether it has a headers object, the addresses of
\* x-forwarded-for in order, x-real-ip, cf-connecting-ip and the address of
\* the connection ("" for a header that is not sent).
Requests ==
    { [method |-> m, headers |-> "present", forwarded |-> f, realIp |-> r,
       cfIp |-> "", remote |-> c] :
          m \in {"GET", "OPTIONS"},
          f \in {<<>>, <<"203.0.113.7", "10.0.0.1">>},
          r \in {"", "198.51.100.4"},
          c \in {"", "127.0.0.1", "::1"} }
    \cup { [method |-> "GET", headers |-> "absent", forwarded |-> <<>>,
            realIp |-> "", cfIp |-> "", remote |-> "192.0.2.9"],
           [method |-> "GET", headers |-> "present", forwarded |-> <<>>,
            realIp |-> "", cfIp |-> "192.0.2.9", remote |-> "127.0.0.1"] }

\* what reader.city(ip) returns: every field present, or none ("" and 0 stand
\* for a missing field); coordinates in hundredths of a degree
CityResponses ==
    { [city |-> "Paris", country |-> "France", isoCode |-> "FR",
       latitude |-> 4886, longitude |-> 235],
      [city |-> "", country |-> "", isoCode |-> "", latitude |-> 0, longitude |-> 0] }

\* what response.json() of ip-api.com resolves to; status "<null>" is the
\* JSON value null
ApiData ==
    { [status |-> "success", city |-> "Lyon", country |-> "France",
       countryCode |-> "FR", lat |-> 4576, lon |-> 484],
      [status |-> "success", city |-> "", country |-> "", countryCode |-> "",
       lat |-> 0, lon |-> 0],
      [status |-> "fail", city |-> "", country |-> "", countryCode |-> "",
       lat |-> 0, lon |-> 0],
      [status |-> "<null>", city |-> "", country |-> "", countryCode |-> "",
       lat |-> 0, lon |-> 0] }

\* The function as the argument of a step of the handler.
Srv ==
    [pc |-> srvPc, req |-> srvReq, res |-> srvRes, log |-> srvLog,
     tried |-> srvTried, escaped |-> srvEscaped, count |-> srvCount]

\* a || b || c || d || null on the headers; "" stands for null
getClientIP(req) ==
    IF req.forwarded # <<>> /\ req.forwarded[1] # "" THEN req.forwarded[1]
    ELSE IF req.realIp # "" THEN req.realIp
    ELSE IF req.cfIp # "" THEN req.cfIp
    ELSE req.remote

\* Math.round(x * 10) / 10 of hundredths of a degree, in tenths
RoundTenth(x) == (x + 5) \div 10

\* The bodies of the three res.status(200).json(...) calls. A text is the
\* sequence of the pieces it is put together from.
LocalBody ==
    [city |-> <<"Unknown">>, country |-> <<"Unknown">>, countryCode |-> <<"XX">>,
     lat |-> 0, lon |-> 0, error |-> <<"Cannot determine location for local IP">>]

ErrorBody ==
    [city |-> <<"Unknown">>, country |-> <<"Unknown">>, countryCode |-> <<"XX">>,
     lat |-> 0, lon |-> 0, error |-> <<"Could not determine location">>]

LocationBody(location) ==
    [city |-> <<location.city>>, country |-> <<location.country>>,
     countryCode |-> <<location.countryCode>>,
     lat |-> RoundTenth(location.lat), lon |-> RoundTenth(location.lon),
     error |-> <<>>]

\* the record of the final fallback
UnknownLocation ==
    [city |-> "Unknown", country |-> "Unknown", countryCode |-> "XX",
     lat |-> 0, lon |-> 0]

\* x || 'Unknown' and x || 'XX' on strings
OrElse(x, default) == IF x # "" THEN x ELSE default

\* res.status(status).json(body) or .end(): body is <<>> or <<body>>
Respond(s, status, body) ==
    [s EXCEPT !.res = << [status |-> status, body |-> body] >>, !.pc = "idle"]

\* the catch block of handler
handler_catch(s, message) ==
    Respond([s EXCEPT !.log = Append(@, <<"Geolocation error:">> \o message)],
            200, <<ErrorBody>>)

\* handler up to its first await
handler(s, req) ==
    LET s1 == [s EXCEPT !.req = req, !.res = <<>>, !.log = <<>>, !.tried = <<>>,
                        !.count = @ + 1]
        ip == getClientIP(req)
    IN IF req.method = "OPTIONS" THEN Respond(s1, 200, <<>>)
       ELSE IF req.headers = "absent"
       THEN handler_catch(s1, <<"Cannot read properties of undefined">>)
       ELSE IF ip = "" \/ ip = "127.0.0.1" \/ ip = "::1"
       THEN Respond(s1, 200, <<LocalBody>>)
       ELSE [s1 EXCEPT !.pc = "open", !.tried = <<"maxmind">>]

\* lookupLocation with a catch block that throws the error again
lookupLocation_catch_Rethrows(s, message) ==
    handler_catch([s EXCEPT !.log = Append(@, <<"MaxMind lookup failed:">> \o message),
                            !.escaped = TRUE],
                  message)

\* the catch block of lookupLocation: fallbackAPILookup starts its fetch
lookupLocation_catch(s, message) ==
    [s EXCEPT !.log = Append(@, <<"MaxMind lookup failed:">> \o message),
              !.tried = Append(@, "fallback"),
              !.pc = "fetch"]

\* reader.city(ip) returned: lookupLocation returns and handler responds
lookupLocation_return(s, response) ==
    Respond(s, 200,
            << LocationBody([city |-> OrElse(response.city, "Unknown"),
                             country |-> OrElse(response.country, "Unknown"),
                             countryCode |-> OrElse(response.isoCode, "XX"),
                             lat |-> response.latitude,
                             lon |-> response.longitude]) >>)

\* the catch block of fallbackAPILookup, then its final return
fallbackAPILookup_catch(s, message) ==
    Respond([s EXCEPT !.log = Append(@, <<"Fallback API lookup failed:">> \o message)],
            200, << LocationBody(UnknownLocation) >>)

\* fallbackAPILookup from the value of response.json() on
fallbackAPILookup_data(s, data) ==
    IF data.status = "<null>"
    THEN fallbackAPILookup_catch(s, <<"Cannot read properties of null">>)
    ELSE IF data.status = "success"
    THEN Respond(s, 200,
                 << LocationBody([city |-> OrElse(data.city, "Unknown"),
                                  country |-> OrElse(data.country, "Unknown"),
                                  countryCode |-> OrElse(data.countryCode, "XX"),
                                  lat |-> data.lat, lon |-> data.lon]) >>)
    ELSE Respond(s, 200, << LocationBody(UnknownLocation) >>)

SrvSet(t) ==
    /\ srvPc' = t.pc
    /\ srvReq' = t.req
    /\ srvRes' = t.res
    /\ srvLog' = t.log
    /\ srvTried' = t.tried
    /\ srvEscaped' = t.escaped
    /\ srvCount' = t.count
    /\ UNCHANGED <<modeVars, basicVars, loadVars, sectionVars, gameVars, flightVars>>

\* a request arrives when the function is idle
RequestArrives ==
    /\ srvPc = "idle"
    /\ srvCount < SrvRequests
    /\ \E req \in Requests : SrvSet(handler(Srv, req))

\* Reader.open resolved and reader.city returned
ReaderReturns ==
    /\ srvPc = "open"
    /\ \E response \in CityResponses : SrvSet(lookupLocation_return(Srv, response))

\* Reader.open resolved and reader.city threw AddressNotFoundError
ReaderThrows ==
    /\ srvPc = "open"
    /\ SrvSet(lookupLocation_catch(Srv,
                  <<"The address ", getClientIP(srvReq), " is not in the database">>))

\* Reader.open rejected: the database file is missing
ReaderOpenRejects ==
    /\ srvPc = "open"
    /\ SrvSet(lookupLocation_catch(Srv, <<"ENOENT: no such file or directory">>))

\* fetch of ip-api.com resolved: response.json() is awaited
ApiFetchResolves ==
    /\ srvPc = "fetch"
    /\ SrvSet([Srv EXCEPT !.pc = "json"])

ApiFetchRejects ==
    /\ srvPc = "fetch"
    /\ SrvSet(fallbackAPILookup_catch(Srv, <<"fetch failed">>))

ApiJsonResolves ==
    /\ srvPc = "json"
    /\ \E data \in ApiData : SrvSet(fallbackAPILookup_data(Srv, data))

ApiJsonRejects ==
    /\ srvPc = "json"
    /\ SrvSet(fallbackAPILookup_catch(Srv, <<"Unexpected token < in JSON">>))

NextServer ==
    \/ RequestArrives
    \/ ReaderReturns
    \/ ReaderThrows
    \/ ReaderOpenRejects
    \/ ApiFetchResolves
    \/ ApiFetchRejects
    \/ ApiJsonResolves
    \/ ApiJsonRejects

SpecServer == Init /\ [][NextServer]_vars

\* a text, or a body's texts, hold the address ip
Mentions(text, ip) == \E i \in DOMAIN text : text[i] = ip

BodyMentions(body, ip) ==
    \/ Mentions(body.city, ip)
    \/ Mentions(body.country, ip)
    \/ Mentions(body.countryCode, ip)
    \/ Mentions(body.error, ip)

\* the state part of C31, on the state a step leads to
C31_Answered ==
    /\ ~srvEscaped
    /\ srvTried \in {<<>>, <<"maxmind">>, <<"maxmind", "fallback">>}
    /\ srvPc \in {"fetch", "json"} => srvTried = <<"maxmind", "fallback">>
    /\ (srvPc = "idle" /\ srvCount > 0) =>
          /\ srvRes # <<>>
          /\ srvRes[1].status = 200
          /\ \A b \in DOMAIN srvRes[1].body :
                \A ip \in {getClientIP(srvReq), srvReq.remote, srvReq.realIp,
                            srvReq.cfIp} \ {""} :
                    ~BodyMentions(srvRes[1].body[b], ip)

\* C31: no exception leaves lookupLocation: a failure of the MaxMind lookup
\* starts the fallback API, and a failure of that (fetch or json rejected,
\* null, or a status other than 'success') gives the Unknown/XX/0/0 record;
\* every request is answered with status 200 and the body holds none of the
\* addresses of the request.
C31_NeverFails ==
    [][/\ C31_Answered'
       /\ (ReaderThrows \/ ReaderOpenRejects) =>
             srvPc' = "fetch" /\ srvRes' = <<>>
       /\ (ApiFetchRejects \/ ApiJsonRejects) =>
             srvRes' = << [status |-> 200, body |-> <<LocationBody(UnknownLocation)>>] >>
       /\ \A data \in ApiData :
             (srvPc = "json" /\ data.status # "success"
                /\ SrvSet(fallbackAPILookup_data(Srv, data))) =>
                 srvRes' = << [status |-> 200,
                               body |-> <<LocationBody(UnknownLocation)>>] >>]_vars

\* C31 witness: the MaxMind lookup threw an error that names the address,
\* the fallback API answered with status 'fail', and the request was
\* answered with 200 and the Unknown record.
C31_Witness ==
    /\ srvPc = "idle"
    /\ srvTried = <<"maxmind", "fallback">>
    /\ Len(srvLog) = 1
    /\ Mentions(srvLog[1], getClientIP(srvReq))
    /\ srvRes = << [status |-> 200, body |-> <<LocationBody(UnknownLocation)>>] >>

\* ------------------------------- the mode-based variant, fuzzy list nearly full
\* The store after n fuzzy captures answered from New York, one per tick of
\* the clock, the last at time 0.
FuzzyVisits(n) ==
    [countries |-> << [key |-> "US", code |-> "US", name |-> "United States",
                       count |-> n] >>,
     fuzzyLocations |-> [i \in 1..n |-> [lat |-> Num(407), lon |-> Num(-740),
                                         country |-> "US", timestamp |-> i - n]],
     ephemeralVisitors |-> <<>>]

\* A new session of a browser whose user gave consent, chose fuzzy and was
\* recorded FuzzyLimit - 1 times; the page is built, init has not run yet.
InitFuzzyCap ==
    /\ currentMode = DEFAULT_MODE
    /\ visitorData = EmptyData
    /\ hasConsent = FALSE
    /\ lsMode = "fuzzy"
    /\ lsConsent = "true"
    /\ lsData = << Stringify(FuzzyVisits(FuzzyLimit - 1)) >>
    /\ sessionTracked = FALSE
    /\ pending = 0
    /\ now = 0
    /\ visits = 0
    /\ dom = InitialDom
    /\ tab2 = Tab2Closed
    /\ InitBasicEmpty
    /\ InitLoadEmpty
    /\ InitSectionsClosed
    /\ InitServerIdle
    /\ InitTitleScreen
    /\ InitNoFlight

CapBounded(t) ==
    /\ t.pending <= CapPending
    /\ t.visits <= CapVisits
    /\ t.now <= CapTime

CapInit ==
    /\ CapBounded(init(St))
    /\ Set(init(St))

\* the user selects fuzzy again, or disabled
CapChangeMode ==
    \E newMode \in {"fuzzy", "disabled"} :
        /\ CapBounded(changeMode(St, newMode))
        /\ Set(changeMode(St, newMode))

CapFetchResolves ==
    /\ pending > 0
    /\ \E data \in Responses, t \in now..CapTime :
          /\ CapBounded(trackResumed(St, data, t))
          /\ Set(trackResumed(St, data, t))

CapClearAllData ==
    \E confirmed \in BOOLEAN :
        /\ CapBounded(clearAllData(St, confirmed))
        /\ Set(clearAllData(St, confirmed))

CapReloadPage ==
    /\ CapBounded(init(construct(St)))
    /\ Set(init(construct(St)))

NextFuzzyCap ==
    \/ CapInit
    \/ CapChangeMode
    \/ CapFetchResolves
    \/ CapClearAllData
    \/ CapReloadPage

SpecFuzzyCap == InitFuzzyCap /\ [][NextFuzzyCap]_vars

\* ------------------------------- country counts against the fuzzy list
\* A new session of a browser whose user gave consent: the store is empty, or
\* holds FuzzyLimit - 1 fuzzy captures; the page is built, init has not run.
InitCounts ==
    /\ currentMode = DEFAULT_MODE
    /\ visitorData = EmptyData
    /\ hasConsent = FALSE
    /\ lsMode = Missing
    /\ lsConsent = "true"
    /\ lsData \in { <<>>, << Stringify(FuzzyVisits(FuzzyLimit - 1)) >> }
    /\ sessionTracked = FALSE
    /\ pending = 0
    /\ now = 0
    /\ visits = 0
    /\ dom = InitialDom
    /\ tab2 = Tab2Closed
    /\ InitBasicEmpty
    /\ InitLoadEmpty
    /\ InitSectionsClosed
    /\ InitServerIdle
    /\ InitTitleScreen
    /\ InitNoFlight

CountsInit ==
    /\ CapBounded(init(St))
    /\ Set(init(St))

CountsChangeMode ==
    \E newMode \in Modes :
        /\ CapBounded(changeMode(St, newMode))
        /\ Set(changeMode(St, newMode))

CountsFetchResolves ==
    /\ pending > 0
    /\ \E data \in Responses :
          /\ CapBounded(trackResumed(St, data, now))
          /\ Set(trackResumed(St, data, now))

CountsClearAllData ==
    /\ CapBounded(clearAllData(St, TRUE))
    /\ Set(clearAllData(St, TRUE))

CountsReloadPage ==
    /\ CapBounded(init(construct(St)))
    /\ Set(init(construct(St)))

NextCounts ==
    \/ CountsInit
    \/ CountsChangeMode
    \/ CountsFetchResolves
    \/ CountsClearAllData
    \/ CountsReloadPage

SpecCounts == InitCounts /\ [][NextCounts]_vars

\* C35: in the store in memory and in the blob the country counts add up to
\* at least the length of the fuzzy list. A fuzzy capture adds one to the
\* sum; below FuzzyLimit entries it also adds one to the list, so a sum that
\* equalled the length still does, and at FuzzyLimit entries the list keeps
\* its length while the sum goes on growing.
C35_CountsCoverFuzzy ==
    [][LET sum == SumCounts(visitorData.countries)
           n == Len(visitorData.fuzzyLocations)
           sumAfter == SumCounts(visitorData'.countries)
           nAfter == Len(visitorData'.fuzzyLocations)
       IN /\ sumAfter >= nAfter
          /\ lsData' # <<>> =>
                SumCounts(lsData'[1].countries) >= Len(lsData'[1].fuzzyLocations)
          /\ (CountsFetchResolves /\ currentMode = "fuzzy") =>
                /\ sumAfter = sum + 1
                /\ n < FuzzyLimit => nAfter = n + 1
                /\ (n < FuzzyLimit /\ sum = n) => sumAfter = nAfter
                /\ n = FuzzyLimit => (nAfter = FuzzyLimit /\ sumAfter > FuzzyLimit)]_vars

\* C35 witness: after FuzzyLimit - 1 fuzzy captures of earlier sessions, two
\* more from two countries: the list holds FuzzyLimit entries, the counts of
\* the two countries add up to FuzzyLimit + 1.
C35_Witness ==
    /\ Len(visitorData.fuzzyLocations) = FuzzyLimit
    /\ Len(visitorData.countries) = 2
    /\ SumCounts(visitorData.countries) = FuzzyLimit + 1
    /\ visitorData.fuzzyLocations[FuzzyLimit].country = "Unknown"
    /\ visits = 2

\* ------------------------------------------ loading a blob of any shape
\* a page of either variant opens on a store that holds any of the blobs
InitLoad ==
    /\ InitVisitorMap
    /\ InitBasicEmpty
    /\ ldRaw \in RawBlobs
    /\ ldData = FreshKinds
    /\ ldStored = "array"
    /\ ldPc = "start"
    /\ ldOutcome = "none"
    /\ InitSectionsClosed
    /\ InitServerIdle
    /\ InitTitleScreen
    /\ InitNoFlight

\* loadVisitorData of the mode-based variant and getStoredData of the basic one
LoadBlob ==
    /\ ldPc = "start"
    /\ ldData' = LoadKinds(ldData, ldRaw)
    /\ ldStored' = StoredKind(ldRaw)
    /\ ldPc' = "loaded"
    /\ UNCHANGED <<ldRaw, ldOutcome, modeVars, basicVars, sectionVars, serverVars, gameVars, flightVars>>

\* append: a fetch resolves in an active mode
TrackLoaded ==
    /\ ldPc = "loaded"
    /\ \E mode \in ActiveModes : ldOutcome' = TrackKinds(ldData, mode)
    /\ UNCHANGED <<ldRaw, ldData, ldStored, ldPc, modeVars, basicVars, sectionVars, serverVars, gameVars, flightVars>>

\* aggregate: updateUI in any mode
UpdateUILoaded ==
    /\ ldPc = "loaded"
    /\ \E mode \in Modes : ldOutcome' = UpdateUIKinds(ldData, mode)
    /\ UNCHANGED <<ldRaw, ldData, ldStored, ldPc, modeVars, basicVars, sectionVars, serverVars, gameVars, flightVars>>

\* render: renderMap in any mode
RenderMapLoaded ==
    /\ ldPc = "loaded"
    /\ \E mode \in Modes : ldOutcome' = RenderMapKinds(ldData, mode)
    /\ UNCHANGED <<ldRaw, ldData, ldStored, ldPc, modeVars, basicVars, sectionVars, serverVars, gameVars, flightVars>>

\* the three readers of the basic variant
StoreLoaded ==
    /\ ldPc = "loaded"
    /\ ldOutcome' = PCVM_StoreKinds(ldStored)
    /\ UNCHANGED <<ldRaw, ldData, ldStored, ldPc, modeVars, basicVars, sectionVars, serverVars, gameVars, flightVars>>

MarkersLoaded ==
    /\ ldPc = "loaded"
    /\ ldOutcome' = PCVM_LoadKinds(ldStored)
    /\ UNCHANGED <<ldRaw, ldData, ldStored, ldPc, modeVars, basicVars, sectionVars, serverVars, gameVars, flightVars>>

StatsLoaded ==
    /\ ldPc = "loaded"
    /\ ldOutcome' = PCVM_StatsKinds(ldStored)
    /\ UNCHANGED <<ldRaw, ldData, ldStored, ldPc, modeVars, basicVars, sectionVars, serverVars, gameVars, flightVars>>

NextLoad ==
    \/ LoadBlob
    \/ TrackLoaded
    \/ UpdateUILoaded
    \/ RenderMapLoaded
    \/ StoreLoaded
    \/ MarkersLoaded
    \/ StatsLoaded

SpecLoad == InitLoad /\ [][NextLoad]_vars

\* the list of the basic variant as persisted (empty when nothing is stored)
PersistedEntries == IF pcStorage = <<>> THEN <<>> ELSE pcStorage[1]

\* C7: a page load that resolves a location leaves the store unchanged when
\* an entry of the same city and country is less than 24 hours old, and
\* otherwise ends with that location's entry appended.
C7_DedupWithin24h ==
    [][(pcLoads' # pcLoads /\ pcLocation' # <<>>) =>
          LET loc == pcLocation'[1]
              old == PersistedEntries
              new == PersistedEntries'
              young == \E i \in DOMAIN old :
                          /\ old[i].city = loc.city
                          /\ old[i].country = loc.country
                          /\ LessThanDayApart(pcNow', old[i].timestamp)
          IN IF young THEN pcStorage' = pcStorage
             ELSE /\ Len(new) = Min(Len(old) + 1, EntryLimit)
                  /\ new[Len(new)] = EntryOf(loc)]_vars

\* C7 witness: the location of the last page load was rejected as a
\* duplicate (no entry carries its timestamp), in a store that holds two
\* entries of its city and country.
C7_Witness ==
    /\ pcLocation # <<>>
    /\ \A i \in DOMAIN PersistedEntries :
          PersistedEntries[i].timestamp # pcLocation[1].timestamp
    /\ \E i, j \in DOMAIN PersistedEntries :
          /\ i < j
          /\ PersistedEntries[i].city = pcLocation[1].city
          /\ PersistedEntries[j].city = pcLocation[1].city
          /\ PersistedEntries[i].country = pcLocation[1].country
          /\ PersistedEntries[j].country = pcLocation[1].country

\* C21: a page load (loadVisitorData, storeVisitorData, updateStats) leaves
\* every entry already persisted as it was and in the same relative order:
\* the old list is a prefix of the new one, or, when the old list was full,
\* the old list without its first entry is.
C21_StoredRecordsImmutable ==
    [][LET old == PersistedEntries
           new == PersistedEntries'
       IN \/ /\ Len(new) >= Len(old)
             /\ SubSeq(new, 1, Len(old)) = old
          \/ /\ Len(old) = EntryLimit
             /\ Len(new) = EntryLimit
             /\ SubSeq(new, 1, EntryLimit - 1) = SubSeq(old, 2, EntryLimit)]_vars

\* C21 witness: two page loads on a list of EntryLimit - 1 entries, one of
\* them appending: the list is full and still begins with the first daily
\* entry and its successor.
C21_Witness ==
    /\ pcLoads = 2
    /\ Len(PersistedEntries) = EntryLimit
    /\ PersistedEntries[1] = DailyVisits(2)[1]
    /\ PersistedEntries[2] = DailyVisits(2)[2]
    /\ PersistedEntries[EntryLimit].timestamp # Time(EntryLimit - 1, 0)

\* ------------------------------ the basic variant, every timezone of the table
\* page loads of these runs
LookupLoads == 2

\* every key of the table, and two identifiers the table does not have
AllTimezones == TimezoneKeys \cup {"UTC", "Mars/Olympus"}

LookupPageLoad ==
    /\ pcLoads < LookupLoads
    /\ \E timezone \in AllTimezones, d \in Elapsed :
          PcSet(PCVM_init(PcSt, timezone, TimePlus(pcNow, d), TimePlus(pcNow, d)))

NextLookup == LookupPageLoad

SpecLookup == Init /\ [][NextLookup]_vars

\* C23: a page load in a timezone of the table resolves to a record with
\* the city, country, country code and coordinates listed under that key,
\* both coordinates whole tenths of a degree, and the method 'timezone'.
C23_TableLookup ==
    [][(pcLoads' # pcLoads /\ pcTimezone' \in TimezoneKeys) =>
          /\ pcLocation' # <<>>
          /\ LET loc == pcLocation'[1]
                 row == TimezoneMap[pcTimezone']
             IN /\ loc.city = row.city
                /\ loc.country = row.country
                /\ loc.countryCode = row.countryCode
                /\ loc.lat = row.lat
                /\ loc.lon = row.lon
                /\ loc.lat % 10 = 0
                /\ loc.lon % 10 = 0
                /\ loc.detectionMethod = "timezone"]_vars

\* C23 witness: a page load in Asia/Seoul resolved to Seoul at 37.6, 127.0.
C23_Witness ==
    /\ pcTimezone = "Asia/Seoul"
    /\ pcLocation # <<>>
    /\ pcLocation[1].city = "Seoul"
    /\ pcLocation[1].lat = 3760
    /\ pcLocation[1].lon = 12700

\* C24: a page load in a timezone the table does not have resolves to null
\* and runs to its end: the persisted list is unchanged, the statistics
\* are those of the list, and the map has the markers of the stored cities
\* and none for the current visitor.
C24_UnmappedRecordsNothing ==
    [][(pcLoads' # pcLoads /\ pcTimezone' \notin TimezoneKeys) =>
          /\ pcLocation' = <<>>
          /\ pcStorage' = pcStorage
          /\ pcStats'.total = Len(PersistedEntries)
          /\ Len(pcMarkers') =
                Cardinality({ <<PersistedEntries[i].city, PersistedEntries[i].country>> :
                                 i \in DOMAIN PersistedEntries })]_vars

\* C24 witness: after a visit from Paris was stored, a page load in UTC
\* resolved to nothing: one entry, one marker.
C24_Witness ==
    /\ pcTimezone = "UTC"
    /\ pcLocation = <<>>
    /\ pcLoads = 2
    /\ Len(PersistedEntries) = 1
    /\ PersistedEntries[1].city = "Paris"
    /\ Len(pcMarkers) = 1

\* C25: when a page load ends, the three statistics are the number of
\* persisted entries, of their distinct countries and of their distinct
\* pairs of city and country; a load that appends the first entry of an
\* empty store shows 1 visitor and 1 country.
C25_Aggregates ==
    [][pcLoads' # pcLoads =>
          LET entries == PersistedEntries'
          IN /\ pcStats'.total = Len(entries)
             /\ pcStats'.countries =
                   Cardinality({ entries[i].country : i \in DOMAIN entries })
             /\ pcStats'.cities =
                   Cardinality({ <<entries[i].city, entries[i].country>> :
                                    i \in DOMAIN entries })
             /\ (PersistedEntries = <<>> /\ Len(entries) = 1)
                   => (pcStats'.total = 1 /\ pcStats'.countries = 1)]_vars

\* C25 witness: visits from two cities of one country: 2 visitors, 1
\* country, 2 cities.
C25_Witness ==
    /\ Len(PersistedEntries) = 2
    /\ PersistedEntries[1].country = PersistedEntries[2].country
    /\ PersistedEntries[1].city # PersistedEntries[2].city
    /\ pcStats = [total |-> 2, countries |-> 1, cities |-> 2]

\* C26: rendering twice shows what rendering once shows: in the mode-based
\* variant updateUI and renderMap applied twice leave the page of one
\* application; in the basic variant loadVisitorData applied twice to a map
\* without markers leaves the markers of one application.
C26_RenderIdempotent ==
    /\ renderMap(updateUI(renderMap(updateUI(St)))) = renderMap(updateUI(St))
    /\ pcLoads > 0 =>
          LET once == PCVM_loadVisitorData([PcSt EXCEPT !.markers = <<>>])
          IN PCVM_loadVisitorData(once).markers = once.markers

\* C29: once a page load has ended the map has exactly one marker for each
\* pair of city and country in the persisted list, and the marker's count is
\* the number of entries of that pair.
C29_OneMarkerPerCity ==
    pcLoads > 0 =>
        LET groups == CityGroups(PCVM_Parse(PersistedEntries))
        IN /\ Len(pcMarkers) = Len(groups)
           /\ \A g \in DOMAIN groups :
                 \E m \in DOMAIN pcMarkers :
                     /\ pcMarkers[m].city = groups[g].city
                     /\ pcMarkers[m].country = groups[g].country
                     /\ pcMarkers[m].count = groups[g].count

\* C8: the persisted list never holds more than EntryLimit entries, and a
\* step that changes it appends the new entry, dropping the first (oldest)
\* entry when the list was full.
C8_EntryLimit ==
    [][LET old == PersistedEntries
           new == PersistedEntries'
       IN /\ Len(new) <= EntryLimit
          /\ new # old =>
                /\ pcLocation' # <<>>
                /\ IF Len(old) < EntryLimit
                   THEN new = Append(old, EntryOf(pcLocation'[1]))
                   ELSE /\ Len(new) = EntryLimit
                        /\ \A i \in 1..(EntryLimit - 1) : new[i] = old[i + 1]
                        /\ new[EntryLimit] = EntryOf(pcLocation'[1])]_vars

\* C8 witness: the list is full, its first daily entry has been dropped and
\* its last entry is a later visit from another city.
C8_Witness ==
    /\ Len(PersistedEntries) = EntryLimit
    /\ PersistedEntries[1].timestamp = Time(2, 0)
    /\ PersistedEntries[EntryLimit].city # "Paris"

\* C9: the fuzzy list, in memory and as persisted, never holds more than
\* FuzzyLimit entries; a step leaves the persisted list unchanged, appends
\* one entry at its end, drops the first entry of a full list while
\* appending one, or (with the blob removed by clearAllData) empties it.
C9_FuzzyLimit ==
    [][LET old == PersistedFuzzy
           new == PersistedFuzzy'
       IN /\ Len(new) <= FuzzyLimit
          /\ Len(visitorData'.fuzzyLocations) <= FuzzyLimit
          /\ \/ new = old
             \/ Len(new) = Len(old) + 1 /\ SubSeq(new, 1, Len(old)) = old
             \/ /\ Len(old) = FuzzyLimit
                /\ Len(new) = FuzzyLimit
                /\ \A i \in 1..(FuzzyLimit - 1) : new[i] = old[i + 1]
             \/ new = <<>> /\ lsData' = <<>>]_vars

\* C9 witness: two captures on a list of FuzzyLimit - 1 entries: the list is
\* full, the first entry was dropped and the counters sum to FuzzyLimit + 1.
C9_Witness ==
    /\ Len(PersistedFuzzy) = FuzzyLimit
    /\ SumCounts(visitorData.countries) = FuzzyLimit + 1
    /\ visitorData.fuzzyLocations = PersistedFuzzy

\* C10: whatever is stored, after the load the data of both variants is the
\* fresh empty structure, and no operation on it fails.
C10_LoadSelfHeals ==
    ldPc = "loaded" =>
        /\ ldData.countries = "object"
        /\ ldData.fuzzyLocations = "array"
        /\ ldData.ephemeralVisitors = "array"
        /\ ldStored = "array"
        /\ ldOutcome \in {"none", "ok"}

====
